---- MODULE Spec2Model ----
(***************************************************************************)
(* A model of the NES emulator core of hungtcs/rust-nes-emulator: the iNES *)
(* cartridge loader (src/cartridge/mod.rs), the bus address decoder        *)
(* (src/bus/mod.rs) and the CPU run loop (src/cpu/mod.rs).                 *)
(*                                                                         *)
(* Bytes are integers 0..255, addresses integers 0..65535.  A byte vector  *)
(* (Vec<u8>, [u8; N]) is kept as its length and its nonzero bytes, indexed *)
(* from 0 as in Rust.  A panic (panic!, todo!, expect, an out-of-range     *)
(* index or slice) ends the run: it is recorded in the variable fault and  *)
(* disables every action.                                                  *)
(***************************************************************************)
EXTENDS Integers, Sequences, FiniteSets, TLC

VARIABLES
  rom,        \* the TestRom the raw image handed to Cartridge::new is built from
  loaded,     \* what Cartridge::new returned for it (Ok, Err or a panic)
  bus,        \* Bus { cpu_vram, cartridge }
  registers,  \* Registers { a, x, y, status, stack_pointer, program_counter }
  fault,      \* "none", or the panic that ended the run
  run,        \* where run_with_callback is: "idle", "loop" or "returned"
  last,       \* the bus call or the instruction carried out last
  overflow_checks  \* TRUE in a build where u16 overflow panics (debug),
                   \* FALSE where it wraps (release)

vars == <<rom, loaded, bus, registers, fault, run, last, overflow_checks>>

----------------------------------------------------------------------------
(* Bounds of the model.                                                    *)

\* header byte 4 ranges over 0..MaxPrgBanks (16 KB units)
MaxPrgBanks == 2
\* header byte 5 ranges over 0..MaxChrBanks (8 KB units)
MaxChrBanks == 1

----------------------------------------------------------------------------
(* u8 / u16 arithmetic.                                                    *)

RECURSIVE BitAnd(_, _)
BitAnd(a, b) ==
  IF a = 0 \/ b = 0 THEN 0
  ELSE (a % 2) * (b % 2) + 2 * BitAnd(a \div 2, b \div 2)

RECURSIVE BitOr(_, _)
BitOr(a, b) ==
  IF a = 0 THEN b
  ELSE IF b = 0 THEN a
  ELSE (IF a % 2 = 1 \/ b % 2 = 1 THEN 1 ELSE 0) + 2 * BitOr(a \div 2, b \div 2)

RECURSIVE BitXor(_, _)
BitXor(a, b) ==
  IF a = 0 THEN b
  ELSE IF b = 0 THEN a
  ELSE ((a + b) % 2) + 2 * BitXor(a \div 2, b \div 2)

RECURSIVE Pow2(_)
Pow2(n) == IF n = 0 THEN 1 ELSE 2 * Pow2(n - 1)

\* a >> n on an unsigned integer
Shr(a, n) == a \div Pow2(n)

----------------------------------------------------------------------------
(* Byte vectors.                                                           *)

\* A Vec<u8> or [u8; N]: len is its length and nz maps the (0-based) index
\* of every nonzero byte to that byte; all other bytes are 0.
VecOf(seq) ==
  [len |-> Len(seq),
   nz  |-> [i \in {j \in 0..(Len(seq) - 1) : seq[j + 1] # 0} |-> seq[i + 1]]]

\* v[i]; the caller has checked i < v.len
VecAt(v, i) == IF i \in DOMAIN v.nz THEN v.nz[i] ELSE 0

\* v[i] = data
VecSet(v, i, data) ==
  LET cells == IF data = 0 THEN DOMAIN v.nz \ {i} ELSE DOMAIN v.nz \cup {i}
  IN  [v EXCEPT !.nz = [j \in cells |-> IF j = i THEN data ELSE v.nz[j]]]

\* v[from..to].to_vec(); the caller has checked the range
VecSlice(v, from, to) ==
  [len |-> to - from,
   nz  |-> [i \in {j - from : j \in {k \in DOMAIN v.nz : from <= k /\ k < to}}
              |-> v.nz[i + from]]]

\* v.extend(w)
VecExtend(v, w) ==
  [len |-> v.len + w.len,
   nz  |-> [i \in DOMAIN v.nz \cup {j + v.len : j \in DOMAIN w.nz}
              |-> IF i < v.len THEN v.nz[i] ELSE w.nz[i - v.len]]]

\* the bytes of v as a sequence
VecSeq(v) == [i \in 1..v.len |-> VecAt(v, i - 1)]

\* a slice that only needs its start inside the vector
SliceInRangeFromStart(v, from, to) == from <= v.len
\* v[from..to] panics when to exceeds the length (from <= to always holds here)
SliceInRange(v, from, to) == from <= to /\ to <= v.len

----------------------------------------------------------------------------
(* Cartridge loader: src/cartridge/mod.rs                                  *)

MAGIC_NUMBERS == <<78, 69, 83, 26>>     \* 0x4E 0x45 0x53 0x1A

NoCartridge == [mapper |-> 0, prg_rom |-> VecOf(<<>>), chr_rom |-> VecOf(<<>>),
                nametable_mirroring |-> "none"]

Ok(c)      == [kind |-> "Ok", err |-> "", cartridge |-> c]
Err(msg)   == [kind |-> "Err", err |-> msg, cartridge |-> NoCartridge]
Panic(msg) == [kind |-> "panic", err |-> msg, cartridge |-> NoCartridge]

\* the match on (raw[6] & 0x08 == 0x80, raw[6] & 0x01 == 0x01);
\* in Rust & binds tighter than ==
MirroringOf(flags6) ==
  LET four_screen == BitAnd(flags6, 8) = 128
      vertical    == BitAnd(flags6, 1) = 1
  IN  IF four_screen THEN "FourScreen"
      ELSE IF vertical THEN "Vertical"
      ELSE "Horizontal"

\* a loader that takes the low nibble of the mapper from the low nibble of
\* byte 6
MapperOfLowNibbles(flags6, flags7) ==
  BitOr(BitAnd(flags7, 240), BitAnd(flags6, 15))
\* (raw[7] & 0xF0) | (raw[6] >> 4)
MapperOf(flags6, flags7) == BitOr(BitAnd(flags7, 240), Shr(flags6, 4))

\* a loader that takes the trainer flag from bit 1
HasTrainerBit1(flags6) == BitAnd(flags6, 2) = 2
\* raw[6] & 0x04 == 0x04
HasTrainer(flags6) == BitAnd(flags6, 4) = 4

\* a loader that tests bit 2 of byte 7 only
IsNes2Bit2Only(flags7) == BitAnd(Shr(flags7, 2), 1) # 0
\* (raw[7] >> 2 & 0x03) != 0: >> binds tighter than &
IsNes2(flags7) == BitAnd(Shr(flags7, 2), 3) # 0

\* a loader that sizes PRG ROM in 8 KB units
PrgRomSize8K(raw) == VecAt(raw, 4) * 8192
\* (raw[4] as usize) * 16384
PrgRomSize(raw) == VecAt(raw, 4) * 16384

\* (raw[5] as usize) * 8192
ChrRomSize(raw) == VecAt(raw, 5) * 8192

\* Cartridge::new(raw)
CartridgeNew(raw) ==
  IF ~SliceInRange(raw, 0, 4)
    THEN Panic("range end index 4 out of range for slice")
  ELSE IF VecSeq(VecSlice(raw, 0, 4)) # MAGIC_NUMBERS
    THEN Err("File is not in iNES file format")
  ELSE IF raw.len <= 7
    THEN Panic("index out of bounds")
  ELSE IF IsNes2(VecAt(raw, 7))
    THEN Err("NES 2.0 format is not supported")
  ELSE
    LET mapper        == MapperOf(VecAt(raw, 6), VecAt(raw, 7))
        mirroring     == MirroringOf(VecAt(raw, 6))
        has_trainer   == HasTrainer(VecAt(raw, 6))
        prg_rom_start == 16 + (IF has_trainer THEN 512 ELSE 0)
        prg_rom_size  == PrgRomSize(raw)
        chr_rom_start == prg_rom_start + prg_rom_size
        chr_rom_size  == ChrRomSize(raw)
    IN  IF ~SliceInRange(raw, prg_rom_start, prg_rom_start + prg_rom_size)
          THEN Panic("range end index out of range for slice")
        ELSE IF ~SliceInRange(raw, chr_rom_start, chr_rom_start + chr_rom_size)
          THEN Panic("range end index out of range for slice")
        ELSE Ok([mapper |-> mapper,
                 prg_rom |-> VecSlice(raw, prg_rom_start,
                                      prg_rom_start + prg_rom_size),
                 chr_rom |-> VecSlice(raw, chr_rom_start,
                                      chr_rom_start + chr_rom_size),
                 nametable_mirroring |-> mirroring])

----------------------------------------------------------------------------
(* Bus: src/bus/mod.rs                                                     *)

\* Bus::new(cartridge): cpu_vram = [0; 0x800]
BusNew(cartridge) ==
  [cpu_vram |-> [len |-> 2048, nz |-> [i \in {} |-> 0]],
   cartridge |-> cartridge]

Returned(value, reported) ==
  [fault |-> "none", value |-> value, reported |-> reported]
Aborted(msg) == [fault |-> msg, value |-> 0, reported |-> FALSE]

\* a bus whose read decodes RAM without the mirror mask (index = address)
BusReadNoMirror(b, address) ==
  IF address <= 8191
    THEN IF address < b.cpu_vram.len
           THEN Returned(VecAt(b.cpu_vram, address), FALSE)
           ELSE Aborted("index out of bounds")
  ELSE Returned(0, TRUE)

\* a bus that mirrors the upper PRG bank whatever the PRG ROM size
BusReadAlwaysMirrored(b, address) ==
  IF address <= 8191
    THEN Returned(VecAt(b.cpu_vram, BitAnd(address, 2047)), FALSE)
  ELSE IF address <= 16383
    THEN Aborted("not implemented: PPU memory not impl")
  ELSE IF address >= 32768
    THEN LET index == BitAnd(BitAnd(address, 49151), 32767)
         IN  IF index < b.cartridge.prg_rom.len
               THEN Returned(VecAt(b.cartridge.prg_rom, index), FALSE)
               ELSE Aborted("index out of bounds")
  ELSE Returned(0, TRUE)

\* bus.read(address): the byte returned, whether "Ignoring mem access" was
\* printed, and the panic raised instead, if any
BusRead(b, address) ==
  IF address <= 8191                                       \* 0x0000..=0x1FFF
    THEN Returned(VecAt(b.cpu_vram, BitAnd(address, 2047)), FALSE)
  ELSE IF address <= 16383                                 \* 0x2000..=0x3FFF
    THEN Aborted("not implemented: PPU memory not impl")
  ELSE IF address >= 32768                                 \* 0x8000..=0xFFFF
    THEN LET prg_rom  == b.cartridge.prg_rom
             mirrored == IF prg_rom.len = 16384 THEN BitAnd(address, 49151)
                         ELSE address
             index    == BitAnd(mirrored, 32767)
         IN  IF index < prg_rom.len
               THEN Returned(VecAt(prg_rom, index), FALSE)
               ELSE Aborted("index out of bounds")
  ELSE Returned(0, TRUE)

Written(b, reported) == [fault |-> "none", bus |-> b, reported |-> reported]
WriteAborted(b, msg) == [fault |-> msg, bus |-> b, reported |-> FALSE]

\* a bus that stores a write to the ROM window into PRG ROM
BusWriteIntoRom(b, address, data) ==
  IF address <= 8191
    THEN Written([b EXCEPT !.cpu_vram = VecSet(@, BitAnd(address, 2047), data)],
                 FALSE)
  ELSE IF address <= 16383
    THEN WriteAborted(b, "not implemented: PPU memory not impl")
  ELSE IF address >= 32768
    THEN Written([b EXCEPT !.cartridge.prg_rom =
                             VecSet(@, BitAnd(address, 32767), data)], FALSE)
  ELSE Written(b, TRUE)

\* a bus that stores a write to 0x4000-0x5FFF into RAM
BusWriteOutOfRangeStored(b, address, data) ==
  IF address <= 8191 \/ (16384 <= address /\ address <= 24575)
    THEN Written([b EXCEPT !.cpu_vram = VecSet(@, BitAnd(address, 2047), data)],
                 FALSE)
  ELSE IF address <= 16383
    THEN WriteAborted(b, "not implemented: PPU memory not impl")
  ELSE IF address >= 32768
    THEN WriteAborted(b, "Attempt to write to Cartridge ROM space")
  ELSE Written(b, TRUE)

\* a bus that drops a write to the PPU window after storing it in RAM
BusWritePpuIntoRam(b, address, data) ==
  IF address <= 16383
    THEN Written([b EXCEPT !.cpu_vram = VecSet(@, BitAnd(address, 2047), data)],
                 FALSE)
  ELSE IF address >= 32768
    THEN WriteAborted(b, "Attempt to write to Cartridge ROM space")
  ELSE Written(b, TRUE)

\* bus.write(address, data): the bus afterwards, whether "Ignoring mem
\* write-access" was printed, and the panic raised, if any
BusWrite(b, address, data) ==
  IF address <= 8191                                       \* 0x0000..=0x1FFF
    THEN Written([b EXCEPT !.cpu_vram = VecSet(@, BitAnd(address, 2047), data)],
                 FALSE)
  ELSE IF address <= 16383                                 \* 0x2000..=0x3FFF
    THEN WriteAborted(b, "not implemented: PPU memory not impl")
  ELSE IF address >= 32768                                 \* 0x8000..=0xFFFF
    THEN WriteAborted(b, "Attempt to write to Cartridge ROM space")
  ELSE Written(b, TRUE)

----------------------------------------------------------------------------
(* Raw images: the TestRom / create_rom helper of the loader's tests.      *)

\* A Vec<u8> of len bytes, zero except for its first two bytes, its last
\* four bytes and the first and last byte of every 4 KB block; each of these
\* bytes has a value that depends on its position, so that a slice taken at
\* a wrong offset differs from the right one.
FillBytes(len, seed) ==
  LET blocks == 0..((len - 1) \div 4096)
      marks  == {p \in {4096 * j : j \in blocks}
                       \cup {4096 * j + 4095 : j \in blocks}
                       \cup {1, len - 4, len - 3, len - 2, len - 1} :
                  0 <= p /\ p < len}
  IN  [len |-> len,
       nz  |-> [p \in marks |-> 1 + ((seed + p + (p \div 4096)) % 255)]]

\* TestRom { header, trainer, pgp_rom, chr_rom }, its three payloads given by
\* their lengths and the seed of their content
TestRom(header, trainer, prg_len, chr_len, seed) ==
  [header |-> header, trainer |-> trainer, prg_len |-> prg_len,
   chr_len |-> chr_len, seed |-> seed]

TrainerBytes(r) == IF r.trainer THEN FillBytes(512, r.seed + 101)
                   ELSE VecOf(<<>>)
PrgBytes(r)     == FillBytes(r.prg_len, r.seed)
ChrBytes(r)     == FillBytes(r.chr_len, r.seed + 50)

\* create_rom(rom): header, then the trainer if any, then PRG, then CHR
create_rom(r) ==
  VecExtend(VecExtend(VecExtend(VecOf(r.header), TrainerBytes(r)),
                      PrgBytes(r)), ChrBytes(r))

\* a 16-byte iNES header with bytes 4..7 as given and bytes 8..15 zero
Header(magic, n, m, flags6, flags7) ==
  magic \o <<n, m, flags6, flags7, 0, 0, 0, 0, 0, 0, 0, 0>>

\* values of header byte 6: the vertical bit 0, the trainer bit 2, the
\* four-screen bit 3 and mapper nibbles 0, 3 and 8 in bits 4..7
Flags6Values == {0, 1, 4, 5, 8, 9, 12, 13, 49, 53, 128, 136}

\* values of header byte 7: NES 2.0 bits 2..3 clear and set, mapper nibbles
Flags7Values == {0, 4, 8, 12, 16, 240, 244}

\* complete images, as the tests build them: the trainer block is there
\* exactly when the trainer flag is set, PRG and CHR have the declared sizes
CompleteRoms ==
  { TestRom(Header(MAGIC_NUMBERS, n, m, f6, f7), BitAnd(f6, 4) = 4,
            n * 16384, m * 8192, 1) :
      n \in 0..MaxPrgBanks, m \in 0..MaxChrBanks,
      f6 \in Flags6Values, f7 \in Flags7Values }

\* images one byte short of what the header declares, and images whose
\* trainer flag is set with no trainer block in the file
UndersizedRoms ==
  { TestRom(Header(MAGIC_NUMBERS, n, m, f6, 0), BitAnd(f6, 4) = 4,
            n * 16384 - pshort, m * 8192 - cshort, 2) :
      n \in 1..MaxPrgBanks, m \in 1..MaxChrBanks, f6 \in {0, 4},
      pshort \in {0, 1}, cshort \in {0, 1} }
  \cup
  { TestRom(Header(MAGIC_NUMBERS, n, m, 4, 0), FALSE, n * 16384, m * 8192, 2) :
      n \in 0..MaxPrgBanks, m \in 0..MaxChrBanks }

\* files cut inside the 16-byte header, with the right magic as far as it goes
ShortRoms ==
  { TestRom(SubSeq(Header(MAGIC_NUMBERS, n, 0, 0, f7), 1, len), FALSE, 0, 0, 3) :
      n \in {0, 1}, f7 \in {0, 8}, len \in 0..15 }

\* files whose first four bytes are not the magic: one byte of it changed,
\* in a complete image and in a file cut after len bytes
BadMagic(k) == [MAGIC_NUMBERS EXCEPT ![k] = (@ + 1) % 256]

BadMagicRoms ==
  { TestRom(Header(BadMagic(k), n, 0, 0, f7), FALSE, n * 16384, 0, 4) :
      k \in 1..4, n \in {0, 1}, f7 \in {0, 8} }
  \cup
  { TestRom(SubSeq(Header(BadMagic(k), 0, 0, 0, 0), 1, len), FALSE, 0, 0, 4) :
      k \in 1..4, len \in 4..15 }

\* complete images without PRG and CHR banks, for every value of header
\* byte 6 and every value of byte 7 whose bits 2..3 are clear
MapperRoms ==
  { TestRom(Header(MAGIC_NUMBERS, 0, 0, f6, 16 * h7 + l7), BitAnd(f6, 4) = 4,
            0, 0, 5) :
      f6 \in 0..255, h7 \in 0..15, l7 \in 0..3 }

LoaderRoms ==
  CompleteRoms \cup UndersizedRoms \cup ShortRoms \cup BadMagicRoms
  \cup MapperRoms

----------------------------------------------------------------------------
(* State before anything is constructed, shared by the specifications.     *)

NoRom     == TestRom(<<>>, FALSE, 0, 0, 0)
NotLoaded == [kind |-> "none", err |-> "", cartridge |-> NoCartridge]
NoBus     == BusNew(NoCartridge)
NoRegisters == [a |-> 0, x |-> 0, y |-> 0, status |-> 0, stack_pointer |-> 0,
                program_counter |-> 0]
NoLast    == [kind |-> "none", pc |-> 0, code |-> 0, address |-> 0, data |-> 0,
              reported |-> FALSE]

----------------------------------------------------------------------------
(* The loader on its own: one call of Cartridge::new per behaviour.        *)

InitLoader ==
  /\ rom = NoRom
  /\ loaded = NotLoaded
  /\ bus = NoBus
  /\ registers = NoRegisters
  /\ fault = "none"
  /\ run = "idle"
  /\ last = NoLast
  /\ overflow_checks = TRUE

\* let rom = Cartridge::new(&create_rom(test_rom))
Load ==
  /\ loaded.kind = "none"
  /\ \E r \in LoaderRoms :
       /\ rom' = r
       /\ loaded' = CartridgeNew(create_rom(r))
  /\ UNCHANGED <<bus, registers, fault, run, last, overflow_checks>>

NextLoader == Load

SpecLoader == InitLoader /\ [][NextLoader]_vars

----------------------------------------------------------------------------
(* Loader claims.                                                          *)

raw_image == create_rom(rom)

\* bit k of byte b, read off the number itself
Bit(b, k) == (b \div Pow2(k)) % 2 = 1

\* header byte i of the file
HeaderByte(r, i) == r.header[i + 1]

\* v is w[from..to]: the same length and the same byte at every index (both
\* are zero wherever neither holds a nonzero byte)
IsSliceOf(v, w, from, to) ==
  /\ v.len = to - from
  /\ to <= w.len
  /\ \A i \in DOMAIN v.nz : v.nz[i] = VecAt(w, from + i)
  /\ \A j \in DOMAIN w.nz : (from <= j /\ j < to) => w.nz[j] = VecAt(v, j - from)

\* the file starts with a whole header carrying the magic, its NES 2.0 bits
\* are clear and its payloads are exactly what the header declares
ValidImage(r) ==
  /\ Len(r.header) = 16
  /\ SubSeq(r.header, 1, 4) = <<78, 69, 83, 26>>
  /\ ~Bit(HeaderByte(r, 7), 2) /\ ~Bit(HeaderByte(r, 7), 3)
  /\ r.trainer = Bit(HeaderByte(r, 6), 2)
  /\ r.prg_len = 16384 * HeaderByte(r, 4)
  /\ r.chr_len = 8192 * HeaderByte(r, 5)

\* C6: header byte 6 resolves the mirroring by the truth table: bit 3 set
\* gives FourScreen whatever bit 0 is, else bit 0 set gives Vertical, else
\* Horizontal.
C6_MirroringTruthTable ==
  loaded.kind = "Ok" =>
    loaded.cartridge.nametable_mirroring =
      (IF Bit(HeaderByte(rom, 6), 3) THEN "FourScreen"
       ELSE IF Bit(HeaderByte(rom, 6), 0) THEN "Vertical"
       ELSE "Horizontal")

\* C7: a valid image with byte 4 = N, byte 5 = M and no trainer loads, its
\* PRG ROM is the 16384*N bytes raw[16 .. 16+16384*N] and its CHR ROM the
\* 8192*M bytes that follow.
C7_SlicesNoTrainer ==
  (loaded.kind # "none" /\ ValidImage(rom) /\ ~rom.trainer) =>
    LET n == HeaderByte(rom, 4)
        m == HeaderByte(rom, 5)
    IN  /\ loaded.kind = "Ok"
        /\ loaded.cartridge.prg_rom.len = 16384 * n
        /\ IsSliceOf(loaded.cartridge.prg_rom, raw_image, 16, 16 + 16384 * n)
        /\ loaded.cartridge.prg_rom = PrgBytes(rom)
        /\ loaded.cartridge.chr_rom.len = 8192 * m
        /\ IsSliceOf(loaded.cartridge.chr_rom, raw_image,
                     16 + 16384 * n, 16 + 16384 * n + 8192 * m)
        /\ loaded.cartridge.chr_rom = ChrBytes(rom)

C7_Witness ==
  /\ loaded.kind = "Ok" /\ ValidImage(rom) /\ ~rom.trainer
  /\ HeaderByte(rom, 4) = 2 /\ HeaderByte(rom, 5) = 1
  /\ loaded.cartridge.prg_rom.len = 32768
  /\ VecAt(loaded.cartridge.prg_rom, 32767) = VecAt(raw_image, 16 + 32767)
  /\ VecAt(loaded.cartridge.prg_rom, 32767) # 0

\* the same file without its trainer block and with the trainer flag clear
WithoutTrainer(r) ==
  [r EXCEPT !.trainer = FALSE, !.header[7] = @ - 4]

\* C8: with the trainer flag set PRG ROM starts at offset 528 instead of 16,
\* the trainer bytes are dropped and the image loads the same cartridge as
\* the image without trainer block and flag.
C8_TrainerSkipped ==
  (loaded.kind # "none" /\ ValidImage(rom) /\ rom.trainer) =>
    LET n == HeaderByte(rom, 4)
        plain == CartridgeNew(create_rom(WithoutTrainer(rom)))
    IN  /\ loaded.kind = "Ok"
        /\ IsSliceOf(loaded.cartridge.prg_rom, raw_image, 528, 528 + 16384 * n)
        /\ plain.kind = "Ok"
        /\ IsSliceOf(plain.cartridge.prg_rom, create_rom(WithoutTrainer(rom)),
                     16, 16 + 16384 * n)
        /\ loaded.cartridge.prg_rom = plain.cartridge.prg_rom
        /\ loaded.cartridge.chr_rom = plain.cartridge.chr_rom
        /\ loaded.cartridge.mapper = plain.cartridge.mapper
        /\ loaded.cartridge.nametable_mirroring =
             plain.cartridge.nametable_mirroring

C8_Witness ==
  /\ loaded.kind = "Ok" /\ ValidImage(rom) /\ rom.trainer
  /\ HeaderByte(rom, 4) >= 1 /\ HeaderByte(rom, 5) >= 1
  /\ loaded.cartridge.prg_rom = PrgBytes(rom)
  /\ VecAt(raw_image, 16) # 0 /\ VecAt(raw_image, 528) # 0

\* the file holds header byte 7, its magic is right and bits 2..3 of byte 7
\* are not both clear
Nes2Image(r) ==
  /\ Len(r.header) >= 8
  /\ SubSeq(r.header, 1, 4) = <<78, 69, 83, 26>>
  /\ (Bit(HeaderByte(r, 7), 2) \/ Bit(HeaderByte(r, 7), 3))

\* C9: an image with the magic whose byte 7 has bits 2..3 nonzero fails with
\* "NES 2.0 format is not supported" and yields no cartridge.
C9_Nes2Rejected ==
  (loaded.kind # "none" /\ Nes2Image(rom)) =>
    /\ loaded.kind = "Err"
    /\ loaded.err = "NES 2.0 format is not supported"
    /\ loaded.cartridge = NoCartridge

C9_Witness ==
  /\ loaded.kind = "Err" /\ Nes2Image(rom)
  /\ HeaderByte(rom, 7) = 8 /\ HeaderByte(rom, 4) = 1 /\ rom.prg_len = 16384

\* C10: a file shorter than the 16-byte header, or one whose first four
\* bytes are not 4E 45 53 1A, makes the loader return the format error as a
\* value: it neither crashes nor returns a cartridge.
C10_FormatErrorReturned ==
  (/\ loaded.kind # "none"
   /\ \/ raw_image.len < 16
      \/ raw_image.len < 4
      \/ VecSeq(VecSlice(raw_image, 0, 4)) # <<78, 69, 83, 26>>) =>
    /\ loaded.kind = "Err"
    /\ loaded.err = "File is not in iNES file format"

\* the file starts with a whole 16-byte header carrying the magic, with the
\* NES 2.0 bits clear
ValidHeader(r) ==
  /\ Len(r.header) = 16
  /\ SubSeq(r.header, 1, 4) = <<78, 69, 83, 26>>
  /\ ~Bit(HeaderByte(r, 7), 2) /\ ~Bit(HeaderByte(r, 7), 3)

\* the length the header declares for the whole file
DeclaredLength(r) ==
  16 + (IF Bit(HeaderByte(r, 6), 2) THEN 512 ELSE 0)
     + 16384 * HeaderByte(r, 4) + 8192 * HeaderByte(r, 5)

\* C11: a file with a valid header that is shorter than the header declares
\* (trainer, PRG and CHR included) fails with an out-of-range error, and no
\* cartridge returned for a valid header has a PRG or CHR ROM shorter than
\* declared.
C11_UndersizedFails ==
  (loaded.kind # "none" /\ ValidHeader(rom)) =>
    /\ raw_image.len < DeclaredLength(rom) =>
         /\ loaded.kind = "panic"
         /\ loaded.err = "range end index out of range for slice"
         /\ loaded.cartridge = NoCartridge
    /\ loaded.kind = "Ok" =>
         /\ loaded.cartridge.prg_rom.len = 16384 * HeaderByte(rom, 4)
         /\ loaded.cartridge.chr_rom.len = 8192 * HeaderByte(rom, 5)

\* a file whose PRG ROM is whole and whose CHR ROM is one byte short
C11_Witness ==
  /\ loaded.kind = "panic" /\ ValidHeader(rom)
  /\ HeaderByte(rom, 4) = 1 /\ rom.prg_len = 16384
  /\ HeaderByte(rom, 5) = 1 /\ rom.chr_len = 8191
  /\ raw_image.len = DeclaredLength(rom) - 1

\* C12: the mapper id of a loaded cartridge is (byte 7 AND 0xF0) OR
\* (byte 6 >> 4): its high nibble is the high nibble of byte 7 and its low
\* nibble the high nibble of byte 6, whatever the two bytes are.
C12_MapperNibbles ==
  loaded.kind = "Ok" =>
    /\ loaded.cartridge.mapper \in 0..255
    /\ loaded.cartridge.mapper \div 16 = HeaderByte(rom, 7) \div 16
    /\ loaded.cartridge.mapper % 16 = HeaderByte(rom, 6) \div 16

\* byte 6 = 0xA5 and byte 7 = 0xF1 load as mapper 0xFA
C12_Witness ==
  /\ loaded.kind = "Ok"
  /\ HeaderByte(rom, 6) = 165 /\ HeaderByte(rom, 7) = 241
  /\ loaded.cartridge.mapper = 250

----------------------------------------------------------------------------
(* The bus on its own: reads and writes by a caller on a Bus built over a  *)
(* cartridge that the loader accepted.  last records the call.             *)

\* the images the bus runs over: 0..MaxPrgBanks PRG banks, no CHR
BusRoms ==
  { TestRom(Header(MAGIC_NUMBERS, n, 0, 0, 0), FALSE, n * 16384, 0, 1) :
      n \in 0..MaxPrgBanks }

\* addresses at both ends of every range of the decoder and of every mirror
BusAddresses ==
  {0, 1, 2047, 2048, 4095, 6144, 8191, 8192, 16383, 16384, 32767,
   32768, 49151, 49152, 65535}

BusData == {0, 90, 255}

BusCall(kind, address, data, reported) ==
  [kind |-> kind, pc |-> 0, code |-> 0, address |-> address, data |-> data,
   reported |-> reported]

InitBus ==
  /\ rom \in BusRoms
  /\ loaded = CartridgeNew(create_rom(rom))
  /\ loaded.kind = "Ok"
  /\ bus = BusNew(loaded.cartridge)
  /\ registers = NoRegisters
  /\ fault = "none"
  /\ run = "idle"
  /\ last = NoLast
  /\ overflow_checks = TRUE

\* a caller's bus.read(address)
BusReadOp ==
  /\ fault = "none"
  /\ \E address \in BusAddresses :
       LET r == BusRead(bus, address)
       IN  /\ fault' = r.fault
           /\ last' = BusCall("read", address, r.value, r.reported)
  /\ UNCHANGED <<rom, loaded, bus, registers, run, overflow_checks>>

\* a caller's bus.write(address, data)
BusWriteOp ==
  /\ fault = "none"
  /\ \E address \in BusAddresses, data \in BusData :
       LET w == BusWrite(bus, address, data)
       IN  /\ bus' = w.bus
           /\ fault' = w.fault
           /\ last' = BusCall("write", address, data, w.reported)
  /\ UNCHANGED <<rom, loaded, registers, run, overflow_checks>>

NextBus == BusReadOp \/ BusWriteOp

SpecBus == InitBus /\ [][NextBus]_vars

----------------------------------------------------------------------------
(* Bus claims.                                                             *)

\* the first two and the last address of every 256-byte page of a range
PageEnds(from, to) == {a \in from..to : a % 256 \in {0, 1, 255}}

\* the first two and the last address of every 1 KB block of a range
BlockEnds(from, to) == {a \in from..to : a % 1024 \in {0, 1, 1023}}

RamSample == PageEnds(0, 8191)          \* 0x0000-0x1FFF
PpuSample == PageEnds(8192, 16383)      \* 0x2000-0x3FFF
OutSample == BlockEnds(16384, 32767)    \* 0x4000-0x7FFF
RomSample == BlockEnds(32768, 65535)    \* 0x8000-0xFFFF
PrgOffsets == BlockEnds(0, 16383)       \* 0..0x3FFF

RomWritePanic == "Attempt to write to Cartridge ROM space"
PpuTodoPanic  == "not implemented: PPU memory not impl"

\* the four addresses that share the RAM cell of address a
Mirrors(a) == {(a % 2048) + 2048 * j : j \in 0..3}

\* every read of the RAM range returns the byte read at the address masked
\* with 0x07FF, and the byte last written in the range is read at all four
\* mirrors of its cell
RamMirrored ==
  /\ \A a \in RamSample :
       /\ BusRead(bus, a).fault = "none"
       /\ BusRead(bus, a).value = BusRead(bus, a % 2048).value
  /\ (last.kind = "write" /\ last.address <= 8191) =>
       /\ fault = "none"
       /\ \A m \in Mirrors(last.address) : BusRead(bus, m).value = last.data

\* a write in the RAM range leaves every RAM cell but its own as it was
OtherCellsKept ==
  (last'.kind = "write" /\ last'.address <= 8191) =>
    \A i \in (DOMAIN bus.cpu_vram.nz \cup DOMAIN bus'.cpu_vram.nz)
               \ {last'.address % 2048} :
      VecAt(bus'.cpu_vram, i) = VecAt(bus.cpu_vram, i)

\* C1: after any sequence of bus writes, bus.read(a) = bus.read(a & 0x07FF)
\* for every a in 0x0000-0x1FFF; a write in that range is seen at the four
\* mirrors of its cell and changes no other RAM cell.
C1_RamMirroring == [](RamMirrored /\ bus.cpu_vram.len = 2048) /\ [][OtherCellsKept]_vars

C1_Witness ==
  /\ last.kind = "write" /\ last.address = 6144 /\ last.data = 90
  /\ BusRead(bus, 0).value = 90 /\ BusRead(bus, 2048).value = 90
  /\ BusRead(bus, 4096).value = 90
  /\ BusRead(bus, 2047).value = 255

\* C2: with a 16384-byte PRG ROM, bus.read(0x8000 + k) = bus.read(0xC000 + k)
\* = prg_rom[k] for k in 0..0x3FFF; with a 32768-byte PRG ROM, bus.read(a) =
\* prg_rom[a & 0x7FFF] for a in 0x8000-0xFFFF.
C2_PrgWindow ==
  LET prg_rom == bus.cartridge.prg_rom
  IN  /\ prg_rom.len = 16384 =>
           \A k \in PrgOffsets :
             /\ BusRead(bus, 32768 + k) = Returned(VecAt(prg_rom, k), FALSE)
             /\ BusRead(bus, 49152 + k) = Returned(VecAt(prg_rom, k), FALSE)
      /\ prg_rom.len = 32768 =>
           \A a \in RomSample :
             BusRead(bus, a) = Returned(VecAt(prg_rom, a - 32768), FALSE)
      /\ (last.kind = "read" /\ last.address >= 32768
            /\ prg_rom.len \in {16384, 32768}) =>
           /\ fault = "none"
           /\ last.data = VecAt(prg_rom, last.address % prg_rom.len)

C2_Witness ==
  /\ bus.cartridge.prg_rom.len = 16384
  /\ last.kind = "read" /\ last.address = 49152
  /\ last.data = VecAt(bus.cartridge.prg_rom, 0) /\ last.data # 0
  /\ bus.cpu_vram.nz # <<>>

\* C3: bus.write to an address in 0x8000-0xFFFF is a panic, it changes
\* neither RAM nor PRG ROM, and PRG ROM holds the bytes of the loaded image
\* in every reachable state.
C3_RomWriteFatal ==
  /\ \A a \in RomSample, d \in BusData :
       BusWrite(bus, a, d) = WriteAborted(bus, RomWritePanic)
  /\ (last.kind = "write" /\ last.address >= 32768) => fault = RomWritePanic
  /\ bus.cartridge = loaded.cartridge
  /\ bus.cartridge.prg_rom = PrgBytes(rom)

C3_Witness ==
  /\ last.kind = "write" /\ last.address = 65535 /\ last.data = 90
  /\ fault = RomWritePanic
  /\ bus.cartridge.prg_rom.len = 32768
  /\ bus.cpu_vram.nz # <<>>

\* C5: bus.read and bus.write at an address in 0x2000-0x3FFF abort as
\* unimplemented: no value comes back, the write is not discarded silently,
\* and RAM is unchanged.
C5_PpuWindowAborts ==
  /\ \A a \in PpuSample :
       /\ BusRead(bus, a).fault = PpuTodoPanic
       /\ \A d \in BusData : BusWrite(bus, a, d) = WriteAborted(bus, PpuTodoPanic)
  /\ (last.kind \in {"read", "write"}
        /\ 8192 <= last.address /\ last.address <= 16383) =>
       fault = PpuTodoPanic

C5_Witness ==
  /\ last.kind = "write" /\ last.address = 8192 /\ last.data = 255
  /\ fault = PpuTodoPanic
  /\ bus.cpu_vram.nz # <<>>


----------------------------------------------------------------------------
(* Registers and status flags: src/cpu/register.rs,                        *)
(* src/cpu/status_flags.rs.                                                *)

FlagC == 1      \* 0b0000_0001
FlagZ == 2      \* 0b0000_0010
FlagI == 4      \* 0b0000_0100
FlagD == 8      \* 0b0000_1000
FlagB == 16     \* 0b0001_0000
FlagU == 32     \* 0b0010_0000
FlagV == 64     \* 0b0100_0000
FlagN == 128    \* 0b1000_0000

\* Flags::set(flag, on)
FlagSet(status, flag, on) ==
  IF on THEN BitOr(status, flag) ELSE BitAnd(status, 255 - flag)

\* Flags::contains(flag)
FlagContains(status, flag) == BitAnd(status, flag) = flag

\* Registers::new(): status 0x34, every other register 0
RegistersNew ==
  [a |-> 0, x |-> 0, y |-> 0,
   status |-> 52,
   stack_pointer |-> 0,
   program_counter |-> 0]

\* flags that take Negative from bit 6 of the result
SetNzFlagsFromBit6(regs, result) ==
  [regs EXCEPT !.status =
     FlagSet(FlagSet(@, FlagZ, result = 0), FlagN, BitAnd(result, 64) = 64)]

\* Registers::set_nz_flags(result)
SetNzFlags(regs, result) ==
  [regs EXCEPT !.status =
     FlagSet(FlagSet(@, FlagZ, result = 0), FlagN, BitAnd(result, 128) = 128)]

\* a + data + carry, as the u16 sum of add_to_a
AddSum(regs, data) ==
  regs.a + data + (IF FlagContains(regs.status, FlagC) THEN 1 ELSE 0)

\* the registers add_to_a leaves once sum is computed: C from the ninth bit,
\* V from the old accumulator, the operand and the result, then A and Z, N
AddStore(regs, data, sum) ==
  SetNzFlags(
    [regs EXCEPT
       !.status = FlagSet(FlagSet(@, FlagC, sum > 255), FlagV,
                    BitAnd(BitAnd(BitXor(data, sum % 256),
                                  BitXor(regs.a, sum % 256)), 128) # 0),
       !.a = sum % 256],
    sum % 256)

\* an addition that leaves the incoming carry out of the sum
add_to_a_without_carry(regs, data) == AddStore(regs, data, regs.a + data)

\* an addition that adjusts the low digit to decimal when D is set
add_to_a_decimal(regs, data) ==
  IF FlagContains(regs.status, FlagD)
       /\ (regs.a % 16) + (data % 16)
            + (IF FlagContains(regs.status, FlagC) THEN 1 ELSE 0) > 9
    THEN AddStore(regs, data, AddSum(regs, data) + 6)
    ELSE AddStore(regs, data, AddSum(regs, data))

\* Registers::add_to_a(data)
add_to_a(regs, data) == AddStore(regs, data, AddSum(regs, data))

----------------------------------------------------------------------------
(* CPU: src/cpu/mod.rs.  A CPU value is [bus, registers, fault]; a panic   *)
(* inside an instruction is recorded in fault and ends the run.            *)

CpuNew(b) == [bus |-> b, registers |-> RegistersNew, fault |-> "none"]

Value(v) == [fault |-> "none", value |-> v]
NoValue(msg) == [fault |-> msg, value |-> 0]
Fail(m, msg) == [m EXCEPT !.fault = msg]

\* u16 `+`: panics on overflow when the build has overflow checks, wraps
\* otherwise
AddU16(a, n) ==
  IF a + n <= 65535 THEN Value(a + n)
  ELSE IF overflow_checks THEN NoValue("attempt to add with overflow")
  ELSE Value((a + n) % 65536)

\* u16 / u8 wrapping_add
WrappingAdd16(a, n) == (a + n) % 65536
WrappingAdd8(a, n) == (a + n) % 256

\* bus.read(address) for an address that a step which may have panicked
\* computed
ReadAt(b, address) ==
  IF address.fault = "none" THEN BusRead(b, address.value)
  ELSE NoValue(address.fault)

\* (hi << 8) | lo of two bytes read in this order
Word(lo, hi) ==
  IF lo.fault # "none" THEN NoValue(lo.fault)
  ELSE IF hi.fault # "none" THEN NoValue(hi.fault)
  ELSE Value(hi.value * 256 + lo.value)

\* r as u16
AsU16(r) == IF r.fault = "none" THEN Value(r.value) ELSE NoValue(r.fault)

\* r.wrapping_add(n) on u16 and on u8
Plus16(r, n) ==
  IF r.fault = "none" THEN Value(WrappingAdd16(r.value, n))
  ELSE NoValue(r.fault)
Plus8(r, n) ==
  IF r.fault = "none" THEN Value(WrappingAdd8(r.value, n))
  ELSE NoValue(r.fault)

\* Bus::read_u16
BusReadU16(b, address) ==
  Word(BusRead(b, address), ReadAt(b, AddU16(address, 1)))

\* an indirect jump that reads its high byte from the next address always
IndirectTargetNextPage(b, indirect_address) ==
  IF indirect_address.fault # "none" THEN NoValue(indirect_address.fault)
  ELSE BusReadU16(b, indirect_address.value)

\* the Indirect arm once indirect_address is read: the high byte comes
\* from the start of the page when the vector is at a page's last byte
IndirectTarget(b, indirect_address) ==
  IF indirect_address.fault # "none" THEN NoValue(indirect_address.fault)
  ELSE IF BitAnd(indirect_address.value, 255) = 255
    THEN Word(BusRead(b, indirect_address.value),
              BusRead(b, BitAnd(indirect_address.value, 65280)))
  ELSE BusReadU16(b, indirect_address.value)

\* a pointer word whose high byte is read at pointer + 1 in any page
ZeroPageWordNextPage(b, pointer) ==
  IF pointer.fault # "none" THEN NoValue(pointer.fault)
  ELSE Word(BusRead(b, pointer.value), BusRead(b, pointer.value + 1))

\* the two bytes at pointer and pointer.wrapping_add(1) in the zero page
ZeroPageWord(b, pointer) ==
  IF pointer.fault # "none" THEN NoValue(pointer.fault)
  ELSE Word(BusRead(b, pointer.value),
            BusRead(b, WrappingAdd8(pointer.value, 1)))

\* CPU::get_absolute_address
GetAbsoluteAddress(m, mode, address) ==
  CASE mode = "Absolute" -> BusReadU16(m.bus, address)
    [] mode = "AbsoluteX" -> Plus16(BusReadU16(m.bus, address), m.registers.x)
    [] mode = "AbsoluteY" -> Plus16(BusReadU16(m.bus, address), m.registers.y)
    [] mode = "ZeroPage" -> AsU16(BusRead(m.bus, address))
    [] mode = "ZeroPageX" -> Plus8(BusRead(m.bus, address), m.registers.x)
    [] mode = "ZeroPageY" -> Plus8(BusRead(m.bus, address), m.registers.y)
    [] mode = "Indirect" ->
         IndirectTarget(m.bus, BusReadU16(m.bus, address))
    [] mode = "IndexedIndirect" ->
         ZeroPageWord(m.bus, Plus8(BusRead(m.bus, address), m.registers.x))
    [] mode = "IndirectIndexed" ->
         Plus16(ZeroPageWord(m.bus, AsU16(BusRead(m.bus, address))),
                m.registers.y)
    [] OTHER -> NoValue("addressing mode is not support")

\* CPU::get_operand_address
GetOperandAddress(m, mode) ==
  IF mode = "Immediate" THEN Value(m.registers.program_counter)
  ELSE GetAbsoluteAddress(m, mode, m.registers.program_counter)


----------------------------------------------------------------------------
(* Instruction metadata (OPCODES_MAP of cpu/opcodes.rs): the addressing    *)
(* mode and the byte length of the opcodes whose bodies are modelled.      *)

Opcode(code, mnemonic, length, mode) ==
  [code |-> code, mnemonic |-> mnemonic, length |-> length, mode |-> mode]

OPCODES ==
  { Opcode(\h00, "BRK", 1, "Implicit"),
    Opcode(\hEA, "NOP", 1, "Implicit"),
    Opcode(\hA9, "LDA", 2, "Immediate"),
    Opcode(\hA5, "LDA", 2, "ZeroPage"),
    Opcode(\hB5, "LDA", 2, "ZeroPageX"),
    Opcode(\hAD, "LDA", 3, "Absolute"),
    Opcode(\hBD, "LDA", 3, "AbsoluteX"),
    Opcode(\hB9, "LDA", 3, "AbsoluteY"),
    Opcode(\hA1, "LDA", 2, "IndexedIndirect"),
    Opcode(\hB1, "LDA", 2, "IndirectIndexed"),
    Opcode(\hA2, "LDX", 2, "Immediate"),
    Opcode(\hA6, "LDX", 2, "ZeroPage"),
    Opcode(\hB6, "LDX", 2, "ZeroPageY"),
    Opcode(\hAE, "LDX", 3, "Absolute"),
    Opcode(\hBE, "LDX", 3, "AbsoluteY"),
    Opcode(\hA0, "LDY", 2, "Immediate"),
    Opcode(\hA4, "LDY", 2, "ZeroPage"),
    Opcode(\hB4, "LDY", 2, "ZeroPageX"),
    Opcode(\hAC, "LDY", 3, "Absolute"),
    Opcode(\hBC, "LDY", 3, "AbsoluteX"),
    Opcode(\h85, "STA", 2, "ZeroPage"),
    Opcode(\h95, "STA", 2, "ZeroPageX"),
    Opcode(\h8D, "STA", 3, "Absolute"),
    Opcode(\h9D, "STA", 3, "AbsoluteX"),
    Opcode(\h99, "STA", 3, "AbsoluteY"),
    Opcode(\h81, "STA", 2, "IndexedIndirect"),
    Opcode(\h91, "STA", 2, "IndirectIndexed"),
    Opcode(\h86, "STX", 2, "ZeroPage"),
    Opcode(\h96, "STX", 2, "ZeroPageY"),
    Opcode(\h8E, "STX", 3, "Absolute"),
    Opcode(\h84, "STY", 2, "ZeroPage"),
    Opcode(\h94, "STY", 2, "ZeroPageX"),
    Opcode(\h8C, "STY", 3, "Absolute"),
    Opcode(\h69, "ADC", 2, "Immediate"),
    Opcode(\h65, "ADC", 2, "ZeroPage"),
    Opcode(\h75, "ADC", 2, "ZeroPageX"),
    Opcode(\h6D, "ADC", 3, "Absolute"),
    Opcode(\h7D, "ADC", 3, "AbsoluteX"),
    Opcode(\h79, "ADC", 3, "AbsoluteY"),
    Opcode(\h61, "ADC", 2, "IndexedIndirect"),
    Opcode(\h71, "ADC", 2, "IndirectIndexed"),
    Opcode(\hE9, "SBC", 2, "Immediate"),
    Opcode(\hE5, "SBC", 2, "ZeroPage"),
    Opcode(\hF5, "SBC", 2, "ZeroPageX"),
    Opcode(\hED, "SBC", 3, "Absolute"),
    Opcode(\hFD, "SBC", 3, "AbsoluteX"),
    Opcode(\hF9, "SBC", 3, "AbsoluteY"),
    Opcode(\hE1, "SBC", 2, "IndexedIndirect"),
    Opcode(\hF1, "SBC", 2, "IndirectIndexed"),
    Opcode(\h0A, "ASL", 1, "Implicit"),
    Opcode(\h06, "ASL", 2, "ZeroPage"),
    Opcode(\h16, "ASL", 2, "ZeroPageX"),
    Opcode(\h0E, "ASL", 3, "Absolute"),
    Opcode(\h1E, "ASL", 3, "AbsoluteX"),
    Opcode(\h4A, "LSR", 1, "Implicit"),
    Opcode(\h46, "LSR", 2, "ZeroPage"),
    Opcode(\h56, "LSR", 2, "ZeroPageX"),
    Opcode(\h4E, "LSR", 3, "Absolute"),
    Opcode(\h5E, "LSR", 3, "AbsoluteX"),
    Opcode(\h2A, "ROL", 1, "Implicit"),
    Opcode(\h26, "ROL", 2, "ZeroPage"),
    Opcode(\h36, "ROL", 2, "ZeroPageX"),
    Opcode(\h2E, "ROL", 3, "Absolute"),
    Opcode(\h3E, "ROL", 3, "AbsoluteX"),
    Opcode(\h6A, "ROR", 1, "Implicit"),
    Opcode(\h66, "ROR", 2, "ZeroPage"),
    Opcode(\h76, "ROR", 2, "ZeroPageX"),
    Opcode(\h6E, "ROR", 3, "Absolute"),
    Opcode(\h7E, "ROR", 3, "AbsoluteX"),
    Opcode(\hC6, "DEC", 2, "ZeroPage"),
    Opcode(\hD6, "DEC", 2, "ZeroPageX"),
    Opcode(\hCE, "DEC", 3, "Absolute"),
    Opcode(\hDE, "DEC", 3, "AbsoluteX"),
    Opcode(\hE6, "INC", 2, "ZeroPage"),
    Opcode(\hF6, "INC", 2, "ZeroPageX"),
    Opcode(\hEE, "INC", 3, "Absolute"),
    Opcode(\hFE, "INC", 3, "AbsoluteX"),
    Opcode(\h29, "AND", 2, "Immediate"),
    Opcode(\h25, "AND", 2, "ZeroPage"),
    Opcode(\h35, "AND", 2, "ZeroPageX"),
    Opcode(\h2D, "AND", 3, "Absolute"),
    Opcode(\h3D, "AND", 3, "AbsoluteX"),
    Opcode(\h39, "AND", 3, "AbsoluteY"),
    Opcode(\h21, "AND", 2, "IndexedIndirect"),
    Opcode(\h31, "AND", 2, "IndirectIndexed"),
    Opcode(\h49, "EOR", 2, "Immediate"),
    Opcode(\h45, "EOR", 2, "ZeroPage"),
    Opcode(\h55, "EOR", 2, "ZeroPageX"),
    Opcode(\h4D, "EOR", 3, "Absolute"),
    Opcode(\h5D, "EOR", 3, "AbsoluteX"),
    Opcode(\h59, "EOR", 3, "AbsoluteY"),
    Opcode(\h41, "EOR", 2, "IndexedIndirect"),
    Opcode(\h51, "EOR", 2, "IndirectIndexed"),
    Opcode(\h09, "ORA", 2, "Immediate"),
    Opcode(\h05, "ORA", 2, "ZeroPage"),
    Opcode(\h15, "ORA", 2, "ZeroPageX"),
    Opcode(\h0D, "ORA", 3, "Absolute"),
    Opcode(\h1D, "ORA", 3, "AbsoluteX"),
    Opcode(\h19, "ORA", 3, "AbsoluteY"),
    Opcode(\h01, "ORA", 2, "IndexedIndirect"),
    Opcode(\h11, "ORA", 2, "IndirectIndexed"),
    Opcode(\h18, "CLC", 1, "Implicit"),
    Opcode(\hD8, "CLD", 1, "Implicit"),
    Opcode(\h58, "CLI", 1, "Implicit"),
    Opcode(\hB8, "CLV", 1, "Implicit"),
    Opcode(\h38, "SEC", 1, "Implicit"),
    Opcode(\hF8, "SED", 1, "Implicit"),
    Opcode(\h78, "SEI", 1, "Implicit"),
    Opcode(\hA8, "TAY", 1, "Implicit"),
    Opcode(\hBA, "TSX", 1, "Implicit"),
    Opcode(\h8A, "TXA", 1, "Implicit"),
    Opcode(\h9A, "TXS", 1, "Implicit"),
    Opcode(\h98, "TYA", 1, "Implicit"),
    Opcode(\hC8, "INY", 1, "Implicit"),
    Opcode(\h24, "BIT", 2, "ZeroPage"),
    Opcode(\h2C, "BIT", 3, "Absolute"),
    Opcode(\hC7, "DCP", 2, "ZeroPage"),
    Opcode(\hD7, "DCP", 2, "ZeroPageX"),
    Opcode(\hCF, "DCP", 3, "Absolute"),
    Opcode(\hDF, "DCP", 3, "AbsoluteX"),
    Opcode(\hDB, "DCP", 3, "AbsoluteY"),
    Opcode(\hC3, "DCP", 2, "IndexedIndirect"),
    Opcode(\hD3, "DCP", 2, "IndirectIndexed"),
    Opcode(\hE7, "ISC", 2, "ZeroPage"),
    Opcode(\hF7, "ISC", 2, "ZeroPageX"),
    Opcode(\hEF, "ISC", 3, "Absolute"),
    Opcode(\hFF, "ISC", 3, "AbsoluteX"),
    Opcode(\hFB, "ISC", 3, "AbsoluteY"),
    Opcode(\hE3, "ISC", 2, "IndexedIndirect"),
    Opcode(\hF3, "ISC", 2, "IndirectIndexed"),
    Opcode(\h27, "RLA", 2, "ZeroPage"),
    Opcode(\h37, "RLA", 2, "ZeroPageX"),
    Opcode(\h2F, "RLA", 3, "Absolute"),
    Opcode(\h3F, "RLA", 3, "AbsoluteX"),
    Opcode(\h3B, "RLA", 3, "AbsoluteY"),
    Opcode(\h23, "RLA", 2, "IndexedIndirect"),
    Opcode(\h33, "RLA", 2, "IndirectIndexed"),
    Opcode(\h67, "RRA", 2, "ZeroPage"),
    Opcode(\h77, "RRA", 2, "ZeroPageX"),
    Opcode(\h6F, "RRA", 3, "Absolute"),
    Opcode(\h7F, "RRA", 3, "AbsoluteX"),
    Opcode(\h7B, "RRA", 3, "AbsoluteY"),
    Opcode(\h63, "RRA", 2, "IndexedIndirect"),
    Opcode(\h73, "RRA", 2, "IndirectIndexed"),
    Opcode(\h07, "SLO", 2, "ZeroPage"),
    Opcode(\h17, "SLO", 2, "ZeroPageX"),
    Opcode(\h0F, "SLO", 3, "Absolute"),
    Opcode(\h1F, "SLO", 3, "AbsoluteX"),
    Opcode(\h1B, "SLO", 3, "AbsoluteY"),
    Opcode(\h03, "SLO", 2, "IndexedIndirect"),
    Opcode(\h13, "SLO", 2, "IndirectIndexed"),
    Opcode(\h47, "SRE", 2, "ZeroPage"),
    Opcode(\h57, "SRE", 2, "ZeroPageX"),
    Opcode(\h4F, "SRE", 3, "Absolute"),
    Opcode(\h5F, "SRE", 3, "AbsoluteX"),
    Opcode(\h5B, "SRE", 3, "AbsoluteY"),
    Opcode(\h43, "SRE", 2, "IndexedIndirect"),
    Opcode(\h53, "SRE", 2, "IndirectIndexed"),
    Opcode(\hA7, "LAX", 2, "ZeroPage"),
    Opcode(\hB7, "LAX", 2, "ZeroPageY"),
    Opcode(\hAF, "LAX", 3, "Absolute"),
    Opcode(\hBF, "LAX", 3, "AbsoluteY"),
    Opcode(\hA3, "LAX", 2, "IndexedIndirect"),
    Opcode(\hB3, "LAX", 2, "IndirectIndexed"),
    Opcode(\h87, "SAX", 2, "ZeroPage"),
    Opcode(\h97, "SAX", 2, "ZeroPageY"),
    Opcode(\h8F, "SAX", 3, "Absolute"),
    Opcode(\h83, "SAX", 2, "IndexedIndirect"),
    Opcode(\h4B, "ALR", 2, "Immediate"),
    Opcode(\h0B, "ANC", 2, "Immediate"),
    Opcode(\h2B, "ANC", 2, "Immediate"),
    Opcode(\h8B, "ANE", 2, "Immediate"),
    Opcode(\hBB, "LAS", 3, "AbsoluteY"),
    Opcode(\hEB, "SBC", 2, "Immediate"),
    Opcode(\h1A, "NOP", 1, "Implicit"),
    Opcode(\h3A, "NOP", 1, "Implicit"),
    Opcode(\h5A, "NOP", 1, "Implicit"),
    Opcode(\h7A, "NOP", 1, "Implicit"),
    Opcode(\hDA, "NOP", 1, "Implicit"),
    Opcode(\hFA, "NOP", 1, "Implicit"),
    Opcode(\h80, "NOP", 2, "Immediate"),
    Opcode(\h82, "NOP", 2, "Immediate"),
    Opcode(\h89, "NOP", 2, "Immediate"),
    Opcode(\hC2, "NOP", 2, "Immediate"),
    Opcode(\hE2, "NOP", 2, "Immediate"),
    Opcode(\h04, "NOP", 2, "ZeroPage"),
    Opcode(\h44, "NOP", 2, "ZeroPage"),
    Opcode(\h64, "NOP", 2, "ZeroPage"),
    Opcode(\h14, "NOP", 2, "ZeroPageX"),
    Opcode(\h34, "NOP", 2, "ZeroPageX"),
    Opcode(\h54, "NOP", 2, "ZeroPageX"),
    Opcode(\h74, "NOP", 2, "ZeroPageX"),
    Opcode(\hD4, "NOP", 2, "ZeroPageX"),
    Opcode(\hF4, "NOP", 2, "ZeroPageX"),
    Opcode(\h0C, "NOP", 3, "Absolute"),
    Opcode(\h1C, "NOP", 3, "AbsoluteX"),
    Opcode(\h3C, "NOP", 3, "AbsoluteX"),
    Opcode(\h5C, "NOP", 3, "AbsoluteX"),
    Opcode(\h7C, "NOP", 3, "AbsoluteX"),
    Opcode(\hDC, "NOP", 3, "AbsoluteX"),
    Opcode(\hFC, "NOP", 3, "AbsoluteX"),
    Opcode(\hC9, "CMP", 2, "Immediate"),
    Opcode(\hC5, "CMP", 2, "ZeroPage"),
    Opcode(\hD5, "CMP", 2, "ZeroPageX"),
    Opcode(\hCD, "CMP", 3, "Absolute"),
    Opcode(\hDD, "CMP", 3, "AbsoluteX"),
    Opcode(\hD9, "CMP", 3, "AbsoluteY"),
    Opcode(\hC1, "CMP", 2, "IndexedIndirect"),
    Opcode(\hD1, "CMP", 2, "IndirectIndexed"),
    Opcode(\hE0, "CPX", 2, "Immediate"),
    Opcode(\hE4, "CPX", 2, "ZeroPage"),
    Opcode(\hEC, "CPX", 3, "Absolute"),
    Opcode(\hC0, "CPY", 2, "Immediate"),
    Opcode(\hC4, "CPY", 2, "ZeroPage"),
    Opcode(\hCC, "CPY", 3, "Absolute"),
    Opcode(\h4C, "JMP", 3, "Absolute"),
    Opcode(\h6C, "JMP", 3, "Indirect"),
    Opcode(\h20, "JSR", 3, "Absolute"),
    Opcode(\h60, "RTS", 1, "Implicit"),
    Opcode(\h48, "PHA", 1, "Implicit"),
    Opcode(\h68, "PLA", 1, "Implicit"),
    Opcode(\hCA, "DEX", 1, "Implicit"),
    Opcode(\h88, "DEY", 1, "Implicit"),
    Opcode(\h90, "BCC", 2, "Implicit"),
    Opcode(\hB0, "BCS", 2, "Implicit"),
    Opcode(\hF0, "BEQ", 2, "Implicit"),
    Opcode(\h30, "BMI", 2, "Implicit"),
    Opcode(\hD0, "BNE", 2, "Implicit"),
    Opcode(\h10, "BPL", 2, "Implicit"),
    Opcode(\h50, "BVC", 2, "Implicit"),
    Opcode(\h70, "BVS", 2, "Implicit"),
    Opcode(\h6B, "ARR", 2, "Immediate"),
    Opcode(\h08, "PHP", 1, "Implicit"),
    Opcode(\h28, "PLP", 1, "Implicit"),
    Opcode(\h40, "RTI", 1, "Implicit"),
    Opcode(\hAA, "TAX", 1, "Implicit"),
    Opcode(\hE8, "INX", 1, "Implicit") }

OPCODES_MAP == [code \in {o.code : o \in OPCODES} |->
                  CHOOSE o \in OPCODES : o.code = code]

----------------------------------------------------------------------------
(* Instruction bodies: src/cpu/mod.rs, impl for instructions.              *)

\* register reg loaded with the byte read, and the Z and N flags set from it
LoadRegister(m, reg, data) ==
  IF data.fault # "none" THEN Fail(m, data.fault)
  ELSE [m EXCEPT !.registers =
          SetNzFlags([@ EXCEPT ![reg] = data.value], data.value)]

\* self.bus.write(address, data) at the operand address
StoreAt(m, address, data) ==
  IF address.fault # "none" THEN Fail(m, address.fault)
  ELSE [m EXCEPT !.bus = BusWrite(m.bus, address.value, data).bus,
                 !.fault = BusWrite(m.bus, address.value, data).fault]

\* LDA
load_accumulator_with_memory(m, mode) ==
  LoadRegister(m, "a", ReadAt(m.bus, GetOperandAddress(m, mode)))

\* LDX
load_index_x_with_memory(m, mode) ==
  LoadRegister(m, "x", ReadAt(m.bus, GetOperandAddress(m, mode)))

\* LDY
load_index_y_with_memory(m, mode) ==
  LoadRegister(m, "y", ReadAt(m.bus, GetOperandAddress(m, mode)))

\* STA
store_accumulator_in_memory(m, mode) ==
  StoreAt(m, GetOperandAddress(m, mode), m.registers.a)

\* STX
store_index_x_in_memory(m, mode) ==
  StoreAt(m, GetOperandAddress(m, mode), m.registers.x)

\* STY
store_index_y_in_memory(m, mode) ==
  StoreAt(m, GetOperandAddress(m, mode), m.registers.y)

\* TAX
transfer_accumulator_to_index_x(m) ==
  [m EXCEPT !.registers =
     SetNzFlags([@ EXCEPT !.x = m.registers.a], m.registers.a)]

\* an INX that stops at 0xFF
increment_index_x_saturating(m) ==
  [m EXCEPT !.registers =
     SetNzFlags([@ EXCEPT !.x = IF m.registers.x = 255 THEN 255
                                 ELSE m.registers.x + 1],
                IF m.registers.x = 255 THEN 255 ELSE m.registers.x + 1)]

\* INX
increment_index_x_by_one(m) ==
  [m EXCEPT !.registers =
     SetNzFlags([@ EXCEPT !.x = WrappingAdd8(m.registers.x, 1)],
                WrappingAdd8(m.registers.x, 1))]

\* DEX
decrement_index_x_by_one(m) ==
  [m EXCEPT !.registers =
     SetNzFlags([@ EXCEPT !.x = WrappingAdd8(m.registers.x, 255)],
                WrappingAdd8(m.registers.x, 255))]

\* DEY
decrement_index_y_by_one(m) ==
  [m EXCEPT !.registers =
     SetNzFlags([@ EXCEPT !.y = WrappingAdd8(m.registers.y, 255)],
                WrappingAdd8(m.registers.y, 255))]

\* `data as i8`
AsI8(data) == IF data >= 128 THEN data - 256 ELSE data

\* an integer wrapped into the range of i8
WrapI8(x) == ((x + 128) % 256) - 128

\* i8::wrapping_neg
WrappingNegI8(x) == WrapI8(0 - x)

\* i8::wrapping_sub
WrappingSubI8(x, y) == WrapI8(x - y)

\* `as u8` of an i8
AsU8(x) == (x + 256) % 256

\* an operand that is negated and not decremented
SbcOperandNegated(data) == AsU8(WrappingNegI8(AsI8(data)))

\* (data as i8).wrapping_neg().wrapping_sub(1) as u8
SbcOperand(data) == AsU8(WrappingSubI8(WrappingNegI8(AsI8(data)), 1))

\* add_to_a on the byte read
AddData(m, data) ==
  IF data.fault # "none" THEN Fail(m, data.fault)
  ELSE [m EXCEPT !.registers = add_to_a(@, data.value)]

\* add_to_a on the transformed byte read
SubtractData(m, data) ==
  IF data.fault # "none" THEN Fail(m, data.fault)
  ELSE [m EXCEPT !.registers = add_to_a(@, SbcOperand(data.value))]

\* ADC
add_memory_to_accumulator_with_carry(m, mode) ==
  AddData(m, ReadAt(m.bus, GetOperandAddress(m, mode)))

\* SBC
subtract_memory_from_accumulator_with_borrow(m, mode) ==
  SubtractData(m, ReadAt(m.bus, GetOperandAddress(m, mode)))

\* the program counter set to the address computed
JumpTo(m, address) ==
  IF address.fault # "none" THEN Fail(m, address.fault)
  ELSE [m EXCEPT !.registers.program_counter = address.value]

\* JMP
jump_to_new_location(m, mode) == JumpTo(m, GetOperandAddress(m, mode))

\* `offset as u16` of an i8 held in a byte: the sign is extended
SignExtend(offset) == IF offset >= 128 THEN offset + 65280 ELSE offset

\* the branch taken, once the offset byte is read
BranchBy(m, offset) ==
  IF offset.fault # "none" THEN Fail(m, offset.fault)
  ELSE [m EXCEPT !.registers.program_counter =
          WrappingAdd16(WrappingAdd16(@, 1), SignExtend(offset.value))]

\* CPU::branch(condition)
branch(m, condition) ==
  IF condition THEN BranchBy(m, BusRead(m.bus, m.registers.program_counter))
  ELSE m

\* the condition each branch opcode tests on the status register
BranchCondition(code, status) ==
  CASE code = \h90 -> ~FlagContains(status, FlagC)
    [] code = \hB0 -> FlagContains(status, FlagC)
    [] code = \hF0 -> FlagContains(status, FlagZ)
    [] code = \h30 -> FlagContains(status, FlagN)
    [] code = \hD0 -> ~FlagContains(status, FlagZ)
    [] code = \h10 -> ~FlagContains(status, FlagN)
    [] code = \h50 -> ~FlagContains(status, FlagV)
    [] code = \h70 -> FlagContains(status, FlagV)

\* BCC, BCS, BEQ, BMI, BNE, BPL, BVC, BVS
BranchCodes == {\h90, \hB0, \hF0, \h30, \hD0, \h10, \h50, \h70}

\* a push that lowers SP before it writes
StackPushAfterDecrement(m, data) ==
  IF m.fault # "none" THEN m
  ELSE [m EXCEPT
          !.bus = BusWrite(m.bus, 256 + ((m.registers.stack_pointer + 255) % 256),
                           data).bus,
          !.registers.stack_pointer = (@ + 255) % 256]

\* CPU::stack_push(data): the write at 0x0100 + SP, then SP wrapping_sub 1
StackPush(m, data) ==
  IF m.fault # "none" THEN m
  ELSE [m EXCEPT
          !.bus = BusWrite(m.bus, 256 + m.registers.stack_pointer, data).bus,
          !.fault = BusWrite(m.bus, 256 + m.registers.stack_pointer, data).fault,
          !.registers.stack_pointer = (@ + 255) % 256]

\* CPU::stack_pop, first half: SP wrapping_add 1
StackPopped(m) == [m EXCEPT !.registers.stack_pointer = (@ + 1) % 256]

\* CPU::stack_pop, second half: the read at 0x0100 + SP
StackTop(m) == BusRead(m.bus, 256 + m.registers.stack_pointer)

\* a push of the low byte before the high byte
stack_push_u16_low_first(m, data) ==
  StackPush(StackPush(m, data % 256), data \div 256)

\* CPU::stack_push_u16(data): hi, then lo
stack_push_u16(m, data) ==
  StackPush(StackPush(m, data \div 256), data % 256)

\* the value of CPU::stack_pop_u16 on m: lo, then hi
PoppedWord(m) ==
  Word(StackTop(StackPopped(m)), StackTop(StackPopped(StackPopped(m))))

\* u16 `+` on a value that may have panicked
PlusChecked(r, n) == IF r.fault # "none" THEN r ELSE AddU16(r.value, n)

\* JSR once the return address is pushed: the operand is read and jumped to
JsrJump(m) ==
  IF m.fault # "none" THEN m ELSE JumpTo(m, GetOperandAddress(m, "Absolute"))

\* JSR once program_counter + 2 is computed
JsrPush(m, sum) ==
  IF sum.fault # "none" THEN Fail(m, sum.fault)
  ELSE JsrJump(stack_push_u16(m, sum.value - 1))

\* JSR
jump_to_new_location_saving_return_address(m) ==
  JsrPush(m, AddU16(m.registers.program_counter, 2))

\* RTS
return_from_subroutine(m) ==
  JumpTo(StackPopped(StackPopped(m)), PlusChecked(PoppedWord(m), 1))

\* PHA
push_accumulator_on_stack(m) == StackPush(m, m.registers.a)

\* the registers with the byte pulled in reg, and Z, N set from it
Pulled(m, reg, data) ==
  IF data.fault # "none" THEN Fail(m, data.fault)
  ELSE [m EXCEPT !.registers =
          SetNzFlags([@ EXCEPT ![reg] = data.value], data.value)]

\* PLA
pull_accumulator_from_stack(m) ==
  Pulled(StackPopped(m), "a", StackTop(StackPopped(m)))

\* the bit a shift or rotate moves into Carry: bit 7 to the left, bit 0 to
\* the right
ShiftCarry(op, data) ==
  IF op \in {"asl", "rol"} THEN BitAnd(data, 128) = 128
  ELSE BitAnd(data, 1) = 1

\* shifts that leave the vacated bit clear in the rotations too
ShiftResultWithoutCarry(op, data, carry) ==
  IF op \in {"asl", "rol"} THEN (data * 2) % 256 ELSE Shr(data, 1)

\* data << 1, data >> 1, and the two with the old carry in the vacated bit
ShiftResult(op, data, carry) ==
  CASE op = "asl" -> (data * 2) % 256
    [] op = "lsr" -> Shr(data, 1)
    [] op = "rol" -> BitOr((data * 2) % 256, IF carry THEN 1 ELSE 0)
    [] op = "ror" -> BitOr(Shr(data, 1), IF carry THEN 128 ELSE 0)

\* status.set(C, ..) and set_nz_flags(data) of a shift of the byte data
ShiftFlags(regs, op, data) ==
  SetNzFlags([regs EXCEPT !.status = FlagSet(@, FlagC, ShiftCarry(op, data))],
             ShiftResult(op, data, FlagContains(regs.status, FlagC)))

\* the memory form once the operand is read: the result written back at the
\* address and the flags set
ShiftMemory(m, address, data, op) ==
  IF data.fault # "none" THEN Fail(m, data.fault)
  ELSE [StoreAt(m, address,
                ShiftResult(op, data.value,
                            FlagContains(m.registers.status, FlagC)))
          EXCEPT !.registers = ShiftFlags(m.registers, op, data.value)]

\* the accumulator form
ShiftAccumulator(m, op) ==
  [m EXCEPT !.registers =
     [ShiftFlags(m.registers, op, m.registers.a) EXCEPT
        !.a = ShiftResult(op, m.registers.a,
                          FlagContains(m.registers.status, FlagC))]]

\* ASL
shift_left_one_bit_memory(m, mode) ==
  ShiftMemory(m, GetOperandAddress(m, mode),
              ReadAt(m.bus, GetOperandAddress(m, mode)), "asl")
shift_left_one_bit_accumulator(m) == ShiftAccumulator(m, "asl")

\* LSR
shift_one_bit_right_memory(m, mode) ==
  ShiftMemory(m, GetOperandAddress(m, mode),
              ReadAt(m.bus, GetOperandAddress(m, mode)), "lsr")
shift_one_bit_right_accumulator(m) == ShiftAccumulator(m, "lsr")

\* ROL
rotate_one_bit_left_memory(m, mode) ==
  ShiftMemory(m, GetOperandAddress(m, mode),
              ReadAt(m.bus, GetOperandAddress(m, mode)), "rol")
rotate_one_bit_left_accumulator(m) == ShiftAccumulator(m, "rol")

\* ROR
rotate_one_bit_right_memory(m, mode) ==
  ShiftMemory(m, GetOperandAddress(m, mode),
              ReadAt(m.bus, GetOperandAddress(m, mode)), "ror")
rotate_one_bit_right_accumulator(m) == ShiftAccumulator(m, "ror")

\* a comparison whose Carry tells that the register is above the operand
ComparedAbove(m, data, rv) ==
  IF data.fault # "none" THEN Fail(m, data.fault)
  ELSE [m EXCEPT !.registers =
          SetNzFlags([@ EXCEPT !.status = FlagSet(@, FlagC, rv > data.value)],
                     WrappingAdd8(rv, 256 - data.value))]

\* status.set(C, rv >= data); set_nz_flags(rv.wrapping_sub(data))
Compared(m, data, rv) ==
  IF data.fault # "none" THEN Fail(m, data.fault)
  ELSE [m EXCEPT !.registers =
          SetNzFlags([@ EXCEPT !.status = FlagSet(@, FlagC, rv >= data.value)],
                     WrappingAdd8(rv, 256 - data.value))]

compare_memory_with(m, mode, rv) ==
  Compared(m, ReadAt(m.bus, GetOperandAddress(m, mode)), rv)

\* CMP
compare_memory_with_accumulator(m, mode) ==
  compare_memory_with(m, mode, m.registers.a)

\* CPX
compare_memory_and_index_x(m, mode) ==
  compare_memory_with(m, mode, m.registers.x)

\* CPY
compare_memory_and_index_y(m, mode) ==
  compare_memory_with(m, mode, m.registers.y)

\* the byte a memory shift or rotation returns to its caller
ShiftedData(m, mode, op) ==
  ShiftResult(op, ReadAt(m.bus, GetOperandAddress(m, mode)).value,
              FlagContains(m.registers.status, FlagC))

\* memory stepped by n (1, or 255 for - 1) once the operand is read: the
\* result written back and Z and N set from it
Stepped(m, address, data, n) ==
  IF data.fault # "none" THEN Fail(m, data.fault)
  ELSE [StoreAt(m, address, WrappingAdd8(data.value, n))
          EXCEPT !.registers = SetNzFlags(m.registers,
                                          WrappingAdd8(data.value, n))]

\* the byte INC returns to its caller
IncrementedData(m, mode) ==
  WrappingAdd8(ReadAt(m.bus, GetOperandAddress(m, mode)).value, 1)

\* DEC
decrement_memory_by_one(m, mode) ==
  Stepped(m, GetOperandAddress(m, mode),
          ReadAt(m.bus, GetOperandAddress(m, mode)), 255)

\* INC
increment_memory_by_one(m, mode) ==
  Stepped(m, GetOperandAddress(m, mode),
          ReadAt(m.bus, GetOperandAddress(m, mode)), 1)

\* INY
increment_index_y_by_one(m) ==
  [m EXCEPT !.registers =
     SetNzFlags([@ EXCEPT !.y = WrappingAdd8(m.registers.y, 1)],
                WrappingAdd8(m.registers.y, 1))]

\* a & data, a ^ data, a | data
LogicResult(op, a, data) ==
  CASE op = "and" -> BitAnd(a, data)
    [] op = "eor" -> BitXor(a, data)
    [] op = "ora" -> BitOr(a, data)

\* registers.a = a op data; set_nz_flags(a), unless a panic came before
Combine(m, op, data) ==
  IF m.fault # "none" THEN m
  ELSE [m EXCEPT !.registers =
          SetNzFlags([@ EXCEPT !.a = LogicResult(op, m.registers.a, data)],
                     LogicResult(op, m.registers.a, data))]

\* the same on the byte read
CombineData(m, op, data) ==
  IF data.fault # "none" THEN Fail(m, data.fault)
  ELSE Combine(m, op, data.value)

\* AND
and_memory_with_accumulator(m, mode) ==
  CombineData(m, "and", ReadAt(m.bus, GetOperandAddress(m, mode)))

\* EOR
exclusive_or_memory_with_accumulator(m, mode) ==
  CombineData(m, "eor", ReadAt(m.bus, GetOperandAddress(m, mode)))

\* ORA
or_memory_with_accumulator(m, mode) ==
  CombineData(m, "ora", ReadAt(m.bus, GetOperandAddress(m, mode)))

\* status.insert(flag) / status.remove(flag)
WithFlag(m, flag, on) ==
  [m EXCEPT !.registers.status = FlagSet(@, flag, on)]

\* CLC, CLD, CLI, CLV, SEC, SED, SEI
clear_carry_flag(m) == WithFlag(m, FlagC, FALSE)
clear_decimal_mode(m) == WithFlag(m, FlagD, FALSE)
clear_interrupt_disable_bit(m) == WithFlag(m, FlagI, FALSE)
clear_overflow_flag(m) == WithFlag(m, FlagV, FALSE)
set_carry_flag(m) == WithFlag(m, FlagC, TRUE)
set_decimal_mode(m) == WithFlag(m, FlagD, TRUE)
set_interrupt_disable_bit(m) == WithFlag(m, FlagI, TRUE)

\* register to := the value, with Z and N set from it
Transfer(m, to, value) ==
  [m EXCEPT !.registers = SetNzFlags([@ EXCEPT ![to] = value], value)]

\* TAY, TSX, TXA, TYA
transfer_accumulator_to_index_y(m) == Transfer(m, "y", m.registers.a)
transfer_stack_pointer_to_index_x(m) ==
  Transfer(m, "x", m.registers.stack_pointer)
transfer_index_x_to_accumulator(m) == Transfer(m, "a", m.registers.x)
transfer_index_y_to_accumulator(m) == Transfer(m, "a", m.registers.y)

\* TXS: no flag is set
transfer_index_x_to_stack_register(m) ==
  [m EXCEPT !.registers.stack_pointer = m.registers.x]

\* Z from a & data, N and V from bits 7 and 6 of the byte read
BitTested(m, data) ==
  IF data.fault # "none" THEN Fail(m, data.fault)
  ELSE [m EXCEPT !.registers.status =
          FlagSet(FlagSet(FlagSet(@, FlagZ,
                                  BitAnd(m.registers.a, data.value) = 0),
                          FlagN, BitAnd(data.value, 128) = 128),
                  FlagV, BitAnd(data.value, 64) = 64)]

\* BIT
test_bits_in_memory_with_accumulator(m, mode) ==
  BitTested(m, ReadAt(m.bus, GetOperandAddress(m, mode)))

\* the second write of RLA, RRA and SRE left out
WriteOnce(m1, mode, data) == m1

\* let address = self.get_operand_address(mode); self.bus.write(address,
\* data) after the memory form has run: the operand address is resolved
\* again, over the memory as the first write left it
WriteAgain(m1, mode, data) ==
  IF m1.fault # "none" THEN m1
  ELSE StoreAt(m1, GetOperandAddress(m1, mode), data)

\* registers.add_to_a(data), unless a panic came before
AddByte(m1, data) ==
  IF m1.fault # "none" THEN m1
  ELSE [m1 EXCEPT !.registers = add_to_a(@, data)]

\* ALR: a & data without flags, then LSR of the accumulator
alr(m, mode) ==
  IF ReadAt(m.bus, GetOperandAddress(m, mode)).fault # "none"
    THEN Fail(m, ReadAt(m.bus, GetOperandAddress(m, mode)).fault)
  ELSE shift_one_bit_right_accumulator(
         [m EXCEPT !.registers.a =
            BitAnd(@, ReadAt(m.bus, GetOperandAddress(m, mode)).value)])

\* C := N after AND
CarryFromNegative(m) ==
  IF m.fault # "none" THEN m
  ELSE WithFlag(m, FlagC, FlagContains(m.registers.status, FlagN))

\* ANC
anc(m, mode) == CarryFromNegative(and_memory_with_accumulator(m, mode))

\* ANE: a = x, then a & data with Z and N
ane_xaa(m, mode) ==
  and_memory_with_accumulator([m EXCEPT !.registers.a = m.registers.x], mode)

\* DCP once the operand is read: memory - 1 written back, then the flags of
\* a comparison of A with it
DcpAt(m, address, data) ==
  IF data.fault # "none" THEN Fail(m, data.fault)
  ELSE Compared(StoreAt(m, address, WrappingAdd8(data.value, 255)),
                Value(WrappingAdd8(data.value, 255)), m.registers.a)

\* DCP
dcp_dcm(m, mode) ==
  DcpAt(m, GetOperandAddress(m, mode),
        ReadAt(m.bus, GetOperandAddress(m, mode)))

\* ISC: INC, then add_to_a of the transformed byte INC returned
isc_isb_ins(m, mode) ==
  AddByte(increment_memory_by_one(m, mode),
          SbcOperand(IncrementedData(m, mode)))

\* stack_pointer & data goes to A, X and SP
LasLoaded(m, data) ==
  IF data.fault # "none" THEN Fail(m, data.fault)
  ELSE [m EXCEPT !.registers =
          SetNzFlags([@ EXCEPT
                        !.a = BitAnd(m.registers.stack_pointer, data.value),
                        !.x = BitAnd(m.registers.stack_pointer, data.value),
                        !.stack_pointer =
                           BitAnd(m.registers.stack_pointer, data.value)],
                     BitAnd(m.registers.stack_pointer, data.value))]

\* LAS
las_lar(m, mode) == LasLoaded(m, ReadAt(m.bus, GetOperandAddress(m, mode)))

\* a = data; x = a; set_nz_flags(x)
LaxLoaded(m, data) ==
  IF data.fault # "none" THEN Fail(m, data.fault)
  ELSE [m EXCEPT !.registers =
          SetNzFlags([@ EXCEPT !.a = data.value, !.x = data.value],
                     data.value)]

\* LAX
lax(m, mode) == LaxLoaded(m, ReadAt(m.bus, GetOperandAddress(m, mode)))

\* RLA: ROL of memory, the second write, then a & data
rla(m, mode) ==
  Combine(WriteAgain(rotate_one_bit_left_memory(m, mode), mode,
                     ShiftedData(m, mode, "rol")),
          "and", ShiftedData(m, mode, "rol"))

\* RRA: ROR of memory, the second write, then add_to_a(data)
rra(m, mode) ==
  AddByte(WriteAgain(rotate_one_bit_right_memory(m, mode), mode,
                     ShiftedData(m, mode, "ror")),
          ShiftedData(m, mode, "ror"))

\* SAX
sax_axs_aax(m, mode) ==
  StoreAt(m, GetOperandAddress(m, mode),
          BitAnd(m.registers.a, m.registers.x))

\* SLO: ASL of memory, then a | data
slo_aso(m, mode) ==
  Combine(shift_left_one_bit_memory(m, mode), "ora",
          ShiftedData(m, mode, "asl"))

\* SRE: LSR of memory, the second write, then a ^ data
sre_lse(m, mode) ==
  Combine(WriteAgain(shift_one_bit_right_memory(m, mode), mode,
                     ShiftedData(m, mode, "lsr")),
          "eor", ShiftedData(m, mode, "lsr"))

\* a PHP that pushes the live status as it is
push_processor_status_unchanged(m) == StackPush(m, m.registers.status)

\* PHP
push_processor_status_on_stack(m) ==
  StackPush(m, FlagSet(FlagSet(m.registers.status, FlagB, TRUE), FlagU, TRUE))

\* all the bits the Flags type names
FlagsAll == FlagC + FlagZ + FlagI + FlagD + FlagB + FlagU + FlagV + FlagN

\* Flags::from_bits(data).expect(..): None, hence a panic, when data has a
\* bit that is no flag
FromBits(data) ==
  IF data.fault # "none" THEN data
  ELSE IF BitAnd(data.value, 255 - FlagsAll) # 0
    THEN NoValue("Status is not valid")
  ELSE data

\* a status restored with the bits as pulled
StatusAsPulled(m, data) ==
  IF data.fault # "none" THEN Fail(m, data.fault)
  ELSE [m EXCEPT !.registers.status = data.value]

\* status = from_bits(data); status.remove(B); status.insert(U)
StatusPulled(m, data) ==
  IF data.fault # "none" THEN Fail(m, data.fault)
  ELSE [m EXCEPT !.registers.status =
          FlagSet(FlagSet(data.value, FlagB, FALSE), FlagU, TRUE)]

\* PLP
pull_processor_status_from_stack(m) ==
  StatusPulled(StackPopped(m), FromBits(StackTop(StackPopped(m))))

\* RTI once the status is restored: program_counter = stack_pop_u16()
RtiJump(m) ==
  IF m.fault # "none" THEN m
  ELSE JumpTo(StackPopped(StackPopped(m)), PoppedWord(m))

\* RTI
return_from_interrupt(m) == RtiJump(pull_processor_status_from_stack(m))

LdaCodes == {\hA9, \hA5, \hB5, \hAD, \hBD, \hB9, \hA1, \hB1}
LdxCodes == {\hA2, \hA6, \hB6, \hAE, \hBE}
LdyCodes == {\hA0, \hA4, \hB4, \hAC, \hBC}
StaCodes == {\h85, \h95, \h8D, \h9D, \h99, \h81, \h91}
StxCodes == {\h86, \h96, \h8E}
StyCodes == {\h84, \h94, \h8C}
AdcCodes == {\h69, \h65, \h75, \h6D, \h7D, \h79, \h61, \h71}
SbcCodes == {\hE9, \hE5, \hF5, \hED, \hFD, \hF9, \hE1, \hF1}
JmpCodes == {\h4C, \h6C}
DecCodes == {\hC6, \hD6, \hCE, \hDE}
IncCodes == {\hE6, \hF6, \hEE, \hFE}
AndCodes == {\h29, \h25, \h35, \h2D, \h3D, \h39, \h21, \h31}
EorCodes == {\h49, \h45, \h55, \h4D, \h5D, \h59, \h41, \h51}
OraCodes == {\h09, \h05, \h15, \h0D, \h1D, \h19, \h01, \h11}
DcpCodes == {\hC7, \hD7, \hCF, \hDF, \hDB, \hC3, \hD3}
IscCodes == {\hE7, \hF7, \hEF, \hFF, \hFB, \hE3, \hF3}
LaxCodes == {\hA7, \hB7, \hAF, \hBF, \hA3, \hB3}
RlaCodes == {\h27, \h37, \h2F, \h3F, \h3B, \h23, \h33}
RraCodes == {\h67, \h77, \h6F, \h7F, \h7B, \h63, \h73}
SaxCodes == {\h87, \h97, \h8F, \h83}
SloCodes == {\h07, \h17, \h0F, \h1F, \h1B, \h03, \h13}
SreCodes == {\h47, \h57, \h4F, \h5F, \h5B, \h43, \h53}
NopCodes ==
  {\hEA, \h1A, \h3A, \h5A, \h7A, \hDA, \hFA, \h80, \h82, \h89, \hC2, \hE2,
   \h04, \h44, \h64, \h14, \h34, \h54, \h74, \hD4, \hF4, \h0C,
   \h1C, \h3C, \h5C, \h7C, \hDC, \hFC}
AslCodes == {\h06, \h16, \h0E, \h1E}
LsrCodes == {\h46, \h56, \h4E, \h5E}
RolCodes == {\h26, \h36, \h2E, \h3E}
RorCodes == {\h66, \h76, \h6E, \h7E}
CmpCodes == {\hC9, \hC5, \hD5, \hCD, \hDD, \hD9, \hC1, \hD1}
CpxCodes == {\hE0, \hE4, \hEC}
CpyCodes == {\hC0, \hC4, \hCC}

\* the `match code` of run_with_callback, BRK apart
Execute(m, code, mode) ==
  CASE code \in LdaCodes -> load_accumulator_with_memory(m, mode)
    [] code \in LdxCodes -> load_index_x_with_memory(m, mode)
    [] code \in LdyCodes -> load_index_y_with_memory(m, mode)
    [] code \in StaCodes -> store_accumulator_in_memory(m, mode)
    [] code \in StxCodes -> store_index_x_in_memory(m, mode)
    [] code \in StyCodes -> store_index_y_in_memory(m, mode)
    [] code = \hAA -> transfer_accumulator_to_index_x(m)
    [] code \in BranchCodes ->
         branch(m, BranchCondition(code, m.registers.status))
    [] code \in JmpCodes -> jump_to_new_location(m, mode)
    [] code = \h20 -> jump_to_new_location_saving_return_address(m)
    [] code = \h60 -> return_from_subroutine(m)
    [] code = \h48 -> push_accumulator_on_stack(m)
    [] code = \h08 -> push_processor_status_on_stack(m)
    [] code = \h28 -> pull_processor_status_from_stack(m)
    [] code = \h40 -> return_from_interrupt(m)
    [] code = \h68 -> pull_accumulator_from_stack(m)
    [] code \in AdcCodes -> add_memory_to_accumulator_with_carry(m, mode)
    [] code \in SbcCodes -> subtract_memory_from_accumulator_with_borrow(m, mode)
    [] code = \h0A -> shift_left_one_bit_accumulator(m)
    [] code \in AslCodes -> shift_left_one_bit_memory(m, mode)
    [] code = \h4A -> shift_one_bit_right_accumulator(m)
    [] code \in LsrCodes -> shift_one_bit_right_memory(m, mode)
    [] code = \h2A -> rotate_one_bit_left_accumulator(m)
    [] code \in RolCodes -> rotate_one_bit_left_memory(m, mode)
    [] code = \h6A -> rotate_one_bit_right_accumulator(m)
    [] code \in RorCodes -> rotate_one_bit_right_memory(m, mode)
    [] code = \hA8 -> transfer_accumulator_to_index_y(m)
    [] code = \hBA -> transfer_stack_pointer_to_index_x(m)
    [] code = \h8A -> transfer_index_x_to_accumulator(m)
    [] code = \h9A -> transfer_index_x_to_stack_register(m)
    [] code = \h98 -> transfer_index_y_to_accumulator(m)
    [] code \in DecCodes -> decrement_memory_by_one(m, mode)
    [] code \in IncCodes -> increment_memory_by_one(m, mode)
    [] code = \hC8 -> increment_index_y_by_one(m)
    [] code \in AndCodes -> and_memory_with_accumulator(m, mode)
    [] code \in EorCodes -> exclusive_or_memory_with_accumulator(m, mode)
    [] code \in OraCodes -> or_memory_with_accumulator(m, mode)
    [] code = \h18 -> clear_carry_flag(m)
    [] code = \hD8 -> clear_decimal_mode(m)
    [] code = \h58 -> clear_interrupt_disable_bit(m)
    [] code = \hB8 -> clear_overflow_flag(m)
    [] code = \h38 -> set_carry_flag(m)
    [] code = \hF8 -> set_decimal_mode(m)
    [] code = \h78 -> set_interrupt_disable_bit(m)
    [] code \in {\h24, \h2C} -> test_bits_in_memory_with_accumulator(m, mode)
    [] code = \h4B -> alr(m, mode)
    [] code \in {\h0B, \h2B} -> anc(m, mode)
    [] code = \h8B -> ane_xaa(m, mode)
    [] code \in DcpCodes -> dcp_dcm(m, mode)
    [] code \in IscCodes -> isc_isb_ins(m, mode)
    [] code = \hBB -> las_lar(m, mode)
    [] code \in LaxCodes -> lax(m, mode)
    [] code \in RlaCodes -> rla(m, mode)
    [] code \in RraCodes -> rra(m, mode)
    [] code \in SaxCodes -> sax_axs_aax(m, mode)
    [] code \in SloCodes -> slo_aso(m, mode)
    [] code \in SreCodes -> sre_lse(m, mode)
    [] code = \hEB -> subtract_memory_from_accumulator_with_borrow(m, mode)
    [] code \in CmpCodes -> compare_memory_with_accumulator(m, mode)
    [] code \in CpxCodes -> compare_memory_and_index_x(m, mode)
    [] code \in CpyCodes -> compare_memory_and_index_y(m, mode)
    [] code = \hE8 -> increment_index_x_by_one(m)
    [] code = \hCA -> decrement_index_x_by_one(m)
    [] code = \h88 -> decrement_index_y_by_one(m)
    [] code \in NopCodes -> m
    [] OTHER -> Fail(m, "opcode not support")

Continues(m) == [cpu |-> m, returned |-> FALSE]
Returns(m) == [cpu |-> m, returned |-> TRUE]

\* the program counter of m moved to pc
WithPc(m, pc) == [m EXCEPT !.registers.program_counter = pc]

\* an advance step that adds the whole length
AdvanceByLength(m2, program_counter_state, length) ==
  IF m2.fault # "none" THEN Continues(m2)
  ELSE IF program_counter_state # m2.registers.program_counter
    THEN Continues(m2)
  ELSE IF AddU16(program_counter_state, length).fault # "none"
    THEN Continues(Fail(m2, AddU16(program_counter_state, length).fault))
  ELSE Continues(WithPc(m2, AddU16(program_counter_state, length).value))

\* the end of an iteration: the program counter moves over the operand
\* bytes unless the instruction moved it
Advance(m2, program_counter_state, length) ==
  IF m2.fault # "none" THEN Continues(m2)
  ELSE IF program_counter_state # m2.registers.program_counter
    THEN Continues(m2)
  ELSE IF AddU16(program_counter_state, length - 1).fault # "none"
    THEN Continues(Fail(m2, AddU16(program_counter_state, length - 1).fault))
  ELSE Continues(WithPc(m2, AddU16(program_counter_state, length - 1).value))

\* a dispatch that passes over a byte without table entry
DispatchSkipsUnknown(m1, code) ==
  IF code \notin DOMAIN OPCODES_MAP THEN Continues(m1)
  ELSE IF code = \h00 THEN Returns(m1)
  ELSE Advance(Execute(m1, code, OPCODES_MAP[code].mode),
               m1.registers.program_counter, OPCODES_MAP[code].length)

\* a dispatch that returns at NOP as it does at BRK
DispatchNopReturns(m1, code) ==
  IF code \notin DOMAIN OPCODES_MAP
    THEN Continues(Fail(m1, "Opcode is not recognized"))
  ELSE IF code \in {\h00, \hEA} THEN Returns(m1)
  ELSE Advance(Execute(m1, code, OPCODES_MAP[code].mode),
               m1.registers.program_counter, OPCODES_MAP[code].length)

\* a dispatch whose BRK pushes the return address and the status before it
\* returns
DispatchBrkPushes(m1, code) ==
  IF code \notin DOMAIN OPCODES_MAP
    THEN Continues(Fail(m1, "Opcode is not recognized"))
  ELSE IF code = \h00
    THEN Returns(StackPush(
           stack_push_u16(m1, WrappingAdd16(m1.registers.program_counter, 2)),
           BitOr(m1.registers.status, FlagB + FlagU)))
  ELSE Advance(Execute(m1, code, OPCODES_MAP[code].mode),
               m1.registers.program_counter, OPCODES_MAP[code].length)

\* the table lookup and the dispatch on the opcode byte; BRK returns
Dispatch(m1, code) ==
  IF code \notin DOMAIN OPCODES_MAP
    THEN Continues(Fail(m1, "Opcode is not recognized"))
  ELSE IF code = \h00 THEN Returns(m1)
  ELSE Advance(Execute(m1, code, OPCODES_MAP[code].mode),
               m1.registers.program_counter, OPCODES_MAP[code].length)

\* the iteration once the opcode byte is read and the program counter
\* incremented
Decode(m, fetch, next) ==
  IF fetch.fault # "none" THEN Continues(Fail(m, fetch.fault))
  ELSE IF next.fault # "none" THEN Continues(Fail(m, next.fault))
  ELSE Dispatch(WithPc(m, next.value), fetch.value)

\* one iteration of the loop of run_with_callback under run()'s empty
\* callback: the CPU afterwards and whether the loop returned
RunIteration(m) ==
  Decode(m, BusRead(m.bus, m.registers.program_counter),
         AddU16(m.registers.program_counter, 1))

----------------------------------------------------------------------------
(* The CPU over a bus.  A program is written into RAM at address 100       *)
(* through bus.write and the CPU constructed over the bus, as the tests of *)
(* src/trace.rs do; the caller then resets the CPU, or loads a program     *)
(* with CPU::load, and enters the run loop, with the program counter set   *)
(* by hand or as reset left it.  run is "new" after construction, "reset"  *)
(* after a reset, "loop" inside the run loop and "returned" after it.      *)
(* last records what was done last: a reset, a load, the entry of the      *)
(* loop, or the instruction an iteration fetched and the address it worked *)
(* on.                                                                     *)

ProgramBase == 100

\* bus.write(base, program[1]); bus.write(base + 1, program[2]); ... for a
\* program that lies in RAM below the first mirror: byte k goes to the
\* cell base + k - 1
WriteProgram(b, base, program) ==
  LET cells == {base + k - 1 : k \in 1..Len(program)}
      old   == b.cpu_vram.nz
      kept  == {c \in DOMAIN old : c \notin cells}
      set   == {c \in cells : program[c - base + 1] # 0}
  IN  [b EXCEPT !.cpu_vram.nz =
         [c \in kept \cup set |->
            IF c \in cells THEN program[c - base + 1] ELSE old[c]]]

Lo(address) == address % 256
Hi(address) == address \div 256

\* operand addresses in RAM, in a RAM mirror, in the PPU window, in the
\* unmapped range and in the ROM window
CpuOperands == {16, 2047, 2064, 8192, 16384, 16407, 24575, 24576, 32767, 32768}

\* LDA #data; STA target; LDA source; NOP; BRK
StoreLoadProgram(data, target, source) ==
  <<\hA9, data, \h8D, Lo(target), Hi(target), \hAD, Lo(source), Hi(source),
    \hEA, \h00>>

\* LDX #data; STX target; LDY source; STY target; BRK
IndexProgram(data, target, source) ==
  <<\hA2, data, \h8E, Lo(target), Hi(target), \hAC, Lo(source), Hi(source),
    \h8C, Lo(target), Hi(target), \h00>>

\* LDA #v; BRK
LdaProgram(v) == <<\hA9, v, \h00>>

\* LDA #v; TAX; INX; BRK
TaxInxProgram(v) == <<\hA9, v, \hAA, \hE8, \h00>>

\* INX n times; BRK
InxProgram(n) == [i \in 1..(n + 1) |-> IF i <= n THEN \hE8 ELSE \h00]

\* LDA #a; ADC #b; SBC #b; BRK
AdcSbcProgram(a, b) == <<\hA9, a, \h69, b, \hE9, b, \h00>>

\* JMP target
JmpProgram(target) == <<\h4C, Lo(target), Hi(target)>>

\* JMP (p)
JmpIndirectProgram(p) == <<\h6C, Lo(p), Hi(p)>>

\* LDA #lo; STA p; LDA #hi; STA p + 1; LDA #page; STA p & 0xFF00; JMP (p):
\* the pointer cell, the cell after it and the first cell of its page are
\* filled before the jump
PointerProgram(p, lo, hi, page) ==
  <<\hA9, lo, \h8D, Lo(p), Hi(p),
    \hA9, hi, \h8D, Lo(p + 1), Hi(p + 1),
    \hA9, page, \h8D, \h00, Hi(p),
    \h6C, Lo(p), Hi(p)>>

\* (the JMP is byte 15 of the program, and its operand byte 16)
\* pointers in RAM at the end of a page, at the end of the zero page, at the
\* end of RAM, inside a page and at the start of one
RamPointers == {\h00FF, \h02FF, \h07FF, \h02FE, \h0300, \h0301}

\* pointers in the ROM window: the ends of 4 KB blocks, the start and the end
\* of the window, and the unmapped range below it
RomPointers == {\h8000, \h8FFF, \hBFFF, \hFFFB, \hFFFE, \hFFFF, \h40FF, \h4100}

\* NOP k times
Nops(k) == [i \in 1..k |-> \hEA]

\* NOP k times; JSR sub; BRK; sub: body; RTS -- the JSR is at ProgramBase + k
JsrProgram(k, body) ==
  Nops(k) \o <<\h20, Lo(ProgramBase + k + 4), Hi(ProgramBase + k + 4), \h00>>
          \o body \o <<\h60>>

\* subroutine bodies that leave the stack as they found it: nothing, NOP,
\* PHA PLA, LDA #1 PHA LDA #2 PLA
SubBodies ==
  { <<>>, <<\hEA>>, <<\h48, \h68>>, <<\hA9, 1, \h48, \hA9, 2, \h68>> }

\* JSR sub1; BRK; sub1: JSR sub2; RTS; sub2: RTS
NestedJsrProgram ==
  <<\h20, Lo(ProgramBase + 4), Hi(ProgramBase + 4), \h00,
    \h20, Lo(ProgramBase + 8), Hi(ProgramBase + 8), \h60, \h60>>

\* JSR to its own second byte; RTS
JsrNextByteProgram ==
  <<\h20, Lo(ProgramBase + 1), Hi(ProgramBase + 1), \h60>>

\* loop: INX; JMP loop
InxLoopProgram == <<\hE8, \h4C, Lo(ProgramBase), Hi(ProgramBase)>>

\* instructions that leave the flags in different states: nothing; LDA #0
\* (Zero); LDA #0x80 (Negative); LDA #0xFF, ADC #1 (Carry, Zero); LDA #0x50,
\* ADC #0x50 (Overflow, Negative)
FlagPrefixes ==
  { <<>>, <<\hA9, \h00>>, <<\hA9, \h80>>, <<\hA9, \hFF, \h69, \h01>>,
    <<\hA9, \h50, \h69, \h50>> }

\* branch offsets: forward, backward, onto the branch itself (0xFE) and onto
\* its own offset byte (0xFF)
BranchOffsets == {\h00, \h01, \h02, \h7F, \h80, \hFC, \hFE, \hFF}

\* prefix; branch with offset o; BRK
BranchProgram(prefix, code, o) == prefix \o <<code, o, \h00>>

\* LDA #0x40; LDX #0x40; LDY #0x40; compare with the operand bytes 0x41
\* 0x00; BRK
CompareProgram(code) ==
  <<\hA9, \h40, \hA2, \h40, \hA0, \h40, code, \h41>>
    \o (IF OPCODES_MAP[code].length = 3 THEN <<\h00, \h00>> ELSE <<\h00>>)

\* the bytes that no arm of the `match code` names
NoArmCodes ==
  { \h02, \h12, \h22, \h32, \h42, \h52, \h62, \h6B, \h72, \h92, \h93, \h9B,
    \h9C, \h9E, \h9F, \hAB, \hB2, \hCB, \hD2, \hF2 }

\* LDA #5; TAX; the byte b and two more bytes
NoArmProgram(b) == <<\hA9, 5, \hAA, b, \hE8, \hE8>>

\* the longest run of INX: one full turn of X and one more
MaxInx == 257

InxCounts == {0, 1, 2, 128, 255, 256, MaxInx}

CpuPrograms ==
  { StoreLoadProgram(data, target, source) :
      data \in BusData, target \in CpuOperands, source \in CpuOperands }
  \cup
  { IndexProgram(data, target, source) :
      data \in BusData, target \in CpuOperands, source \in CpuOperands }
  \cup { LdaProgram(v) : v \in 0..255 }
  \cup { TaxInxProgram(v) : v \in 0..255 }
  \cup { InxProgram(n) : n \in InxCounts }
  \cup { AdcSbcProgram(a, b) : a \in {\h50}, b \in {\h50, \hF0} }
  \cup { JmpProgram(target) : target \in {\h0000, ProgramBase, \h0065, \h4080} }
  \cup { InxLoopProgram }
  \cup { JmpIndirectProgram(p) : p \in RamPointers \cup RomPointers }
  \cup { PointerProgram(p, \h80, \h50, \h40) : p \in RamPointers }
  \cup { PointerProgram(\h02FE, Lo(ProgramBase + 16), \h00, \h40) }
  \cup { JsrProgram(k, body) : k \in 0..2, body \in SubBodies }
  \cup { NestedJsrProgram, JsrNextByteProgram }
  \cup { NoArmProgram(b) : b \in NoArmCodes }
  \cup { CompareProgram(code) : code \in CmpCodes \cup CpxCodes \cup CpyCodes }
  \cup { BranchProgram(prefix, code, o) :
           prefix \in FlagPrefixes, code \in BranchCodes, o \in BranchOffsets }

\* the cartridges the CPU runs over: 0..MaxPrgBanks PRG banks
CpuRoms ==
  { TestRom(Header(MAGIC_NUMBERS, n, 0, 0, 0), FALSE, n * 16384, 0, 1) :
      n \in 0..MaxPrgBanks }

\* the cartridge with two PRG banks, as the test_rom of the tests
CpuRom == TestRom(Header(MAGIC_NUMBERS, 2, 0, 0, 0), FALSE, 2 * 16384, 0, 1)

\* the programs run over every cartridge
CommonPrograms == { StoreLoadProgram(90, 16, 16), <<\h00>> }

\* the programs run over a cartridge
ProgramsOver(r) == IF r = CpuRom THEN CpuPrograms ELSE CommonPrograms

InitCpu ==
  /\ rom \in CpuRoms
  /\ loaded = CartridgeNew(create_rom(rom))
  /\ loaded.kind = "Ok"
  /\ \E program \in ProgramsOver(rom) :
       bus = WriteProgram(BusNew(loaded.cartridge), ProgramBase, program)
  /\ registers = CpuNew(bus).registers
  /\ fault = "none"
  /\ run = "new"
  /\ last = NoLast
  /\ overflow_checks \in BOOLEAN

\* what a call made outside the loop is recorded as
Call(kind, pc) ==
  [kind |-> kind, pc |-> pc, code |-> 0, address |-> -1, data |-> 0,
   reported |-> FALSE]

\* the addressing mode of an opcode byte; "Implicit" when it has no entry
ModeOf(code) ==
  IF code \in DOMAIN OPCODES_MAP THEN OPCODES_MAP[code].mode ELSE "Implicit"

\* what an iteration is recorded as: where it fetched, the opcode byte and
\* the address of the memory operand (-1 when there is none)
Instr(pc, code, operand) ==
  [kind |-> "instr", pc |-> pc, code |-> code,
   address |-> IF operand.fault = "none" THEN operand.value ELSE -1,
   data |-> 0, reported |-> FALSE]

\* the operand address of the instruction with opcode byte code at pc
OperandOf(m, pc, code) ==
  IF ModeOf(code) = "Implicit" \/ pc = 65535 THEN NoValue("none")
  ELSE GetOperandAddress(WithPc(m, pc + 1), ModeOf(code))

\* the instruction at the program counter, as the loop will decode it
Fetched(m, fetch) ==
  Instr(m.registers.program_counter, fetch.value,
        IF fetch.fault = "none"
          THEN OperandOf(m, m.registers.program_counter, fetch.value)
          ELSE NoValue(fetch.fault))

\* the CPU value made of the state variables
Cpu == [bus |-> bus, registers |-> registers, fault |-> "none"]

\* one iteration of the run loop
Step ==
  /\ run = "loop"
  /\ fault = "none"
  /\ \E r \in {RunIteration(Cpu)} :
       /\ bus' = r.cpu.bus
       /\ registers' = r.cpu.registers
       /\ fault' = r.cpu.fault
       /\ run' = IF r.returned THEN "returned" ELSE "loop"
  /\ last' = Fetched(Cpu, BusRead(bus, registers.program_counter))
  /\ UNCHANGED <<rom, loaded, overflow_checks>>

\* a reset that restores what Registers::new built
RegistersResetAsNew(program_counter) ==
  [RegistersNew EXCEPT !.program_counter = program_counter]

\* Registers::reset(program_counter)
RegistersReset(program_counter) ==
  [a |-> 0, x |-> 0, y |-> 0,
   status |-> 36,
   stack_pointer |-> 253,
   program_counter |-> program_counter]

\* CPU::reset with the reset vector as read
ResetTo(m, vector) ==
  IF vector.fault # "none" THEN Fail(m, vector.fault)
  ELSE [m EXCEPT !.registers = RegistersReset(vector.value)]

\* CPU::reset
CpuReset(m) == ResetTo(m, BusReadU16(m.bus, 65532))

\* cpu.reset() by the caller, outside the run loop
Reset ==
  /\ run \in {"new", "reset", "returned"}
  /\ fault = "none"
  /\ \E m \in {CpuReset(Cpu)} :
       /\ registers' = m.registers
       /\ bus' = m.bus
       /\ fault' = m.fault
  /\ run' = "reset"
  /\ last' = Call("reset", 0)
  /\ UNCHANGED <<rom, loaded, overflow_checks>>

\* cpu.registers.program_counter = 0x64; cpu.run_with_callback(..): the
\* loop is entered at the program in RAM
RunProgram ==
  /\ run \in {"new", "reset"}
  /\ fault = "none"
  /\ registers' = [registers EXCEPT !.program_counter = ProgramBase]
  /\ run' = "loop"
  /\ last' = Call("run", ProgramBase)
  /\ UNCHANGED <<rom, loaded, bus, fault, overflow_checks>>

\* cpu.run() where reset left the program counter
Run ==
  /\ run = "reset"
  /\ fault = "none"
  /\ run' = "loop"
  /\ last' = Call("run", registers.program_counter)
  /\ UNCHANGED <<rom, loaded, bus, registers, fault, overflow_checks>>

\* the second write of write_u16, at address + 1
WriteHi(w, address, hi) ==
  IF w.fault # "none" THEN w
  ELSE IF address.fault # "none" THEN WriteAborted(w.bus, address.fault)
  ELSE BusWrite(w.bus, address.value, hi)

\* a write_u16 that stores the high byte at address and the low byte behind
BusWriteU16HighFirst(b, address, data) ==
  WriteHi(BusWrite(b, address, Shr(data, 8)), AddU16(address, 1),
          BitAnd(data, 255))

\* Bus::write_u16
BusWriteU16(b, address, data) ==
  WriteHi(BusWrite(b, address, BitAnd(data, 255)), AddU16(address, 1),
          Shr(data, 8))

\* the window of RAM that CPU::load copies a program to
LoadBase == 1536

\* CPU::load once the bytes are copied: the reset vector is written
SetVector(m, w) == [m EXCEPT !.bus = w.bus, !.fault = w.fault]

\* CPU::load(program); the programs are short enough for every byte to go
\* to RAM
CpuLoad(m, program) ==
  SetVector(m, BusWriteU16(WriteProgram(m.bus, LoadBase, program),
                           65532, LoadBase))

\* self.reset() unless the call before it panicked
ThenReset(m) == IF m.fault # "none" THEN m ELSE CpuReset(m)

\* the programs handed to CPU::load
LoadPrograms ==
  { <<>>, <<\hA9, 5, \h00>>, <<\hE8, \hE8, \h00>>,
    <<\hA9, \hC0, \hAA, \hE8, \h00>> }

\* cpu.load(program) by the caller
LoadProgram ==
  /\ run = "new"
  /\ fault = "none"
  /\ \E program \in LoadPrograms :
       \E m \in {CpuLoad(Cpu, program)} :
         /\ bus' = m.bus
         /\ registers' = m.registers
         /\ fault' = m.fault
  /\ last' = Call("load", LoadBase)
  /\ UNCHANGED <<rom, loaded, run, overflow_checks>>

\* cpu.load_and_run(program) up to the entry of the loop
LoadAndRun ==
  /\ run = "new"
  /\ fault = "none"
  /\ \E program \in LoadPrograms :
       \E m \in {ThenReset(CpuLoad(Cpu, program))} :
         /\ bus' = m.bus
         /\ registers' = m.registers
         /\ fault' = m.fault
         /\ run' = IF m.fault = "none" THEN "loop" ELSE run
  /\ last' = Call("load_and_run", LoadBase)
  /\ UNCHANGED <<rom, loaded, overflow_checks>>

NextCpu == Reset \/ RunProgram \/ Run \/ LoadProgram \/ LoadAndRun \/ Step

SpecCpu == InitCpu /\ [][NextCpu]_vars


----------------------------------------------------------------------------
(* CPU claims.                                                             *)

\* the last iteration executed a 3-byte load or store on an address of
\* 0x4000-0x7FFF
OutOfRangeAccess(l) ==
  /\ l.kind = "instr"
  /\ l.code \in {\hAD, \hAE, \hAC, \h8D, \h8E, \h8C}
  /\ 16384 <= l.address /\ l.address <= 32767

IsStore(l) == l.code \in StaCodes \cup StxCodes \cup StyCodes

\* the register an instruction loads
Loaded(l, regs) ==
  CASE l.code \in LdaCodes -> regs.a
    [] l.code \in LdxCodes -> regs.x
    [] l.code \in LdyCodes -> regs.y

\* a read of 0x4000-0x7FFF returns 0 and a write there leaves the bus as it
\* was, neither raising anything
OutOfRangeIgnored ==
  \A a \in OutSample :
    /\ BusRead(bus, a) = Returned(0, TRUE)
    /\ \A d \in BusData : BusWrite(bus, a, d) = Written(bus, TRUE)

\* after an instruction that accessed 0x4000-0x7FFF the loop is still
\* running, at the next instruction; a load has loaded 0
OutOfRangeCompletes ==
  OutOfRangeAccess(last) =>
    /\ fault = "none"
    /\ run = "loop"
    /\ registers.program_counter = last.pc + 3
    /\ ~IsStore(last) =>
         /\ Loaded(last, registers) = 0
         /\ FlagContains(registers.status, FlagZ)
         /\ ~FlagContains(registers.status, FlagN)

\* an iteration that accesses 0x4000-0x7FFF changes no byte of the bus,
\* and the iteration after it fetches the instruction that follows
OutOfRangeStep ==
  /\ OutOfRangeAccess(last') => bus' = bus
  /\ OutOfRangeAccess(last) =>
       /\ last'.kind = "instr"
       /\ last'.pc = last.pc + 3

\* C4: for every address in 0x4000-0x7FFF a bus read returns 0 and a bus
\* write changes no RAM or ROM byte; neither stops execution: an
\* instruction making such an access completes and the run loop goes on
\* with the next instruction.
C4_OutOfRangeNonFatal ==
  /\ [](OutOfRangeIgnored /\ OutOfRangeCompletes)
  /\ [][OutOfRangeStep]_vars

\* a store to and then a load from 0x4000-0x7FFF have run with a non-zero
\* accumulator, and the loop has gone on to the NOP after them
C4_Witness ==
  /\ last.kind = "instr"
  /\ last.code = \hEA
  /\ last.pc = ProgramBase + 8
  /\ BusRead(bus, ProgramBase + 1).value = 255
  /\ BusReadU16(bus, ProgramBase + 3).value = 16407
  /\ BusReadU16(bus, ProgramBase + 6).value = 32767
  /\ registers.a = 0
  /\ run = "loop"
  /\ fault = "none"

\* the registers a reset must leave: A = X = Y = 0, status 0x24, SP 0xFD
\* and PC the little-endian word at 0xFFFC / 0xFFFD
AfterReset ==
  [a |-> 0, x |-> 0, y |-> 0, status |-> 36, stack_pointer |-> 253,
   program_counter |->
     BusRead(bus, 65532).value + 256 * BusRead(bus, 65533).value]

\* after a reset the registers are the reset state, with I and U the only
\* flags set, and a second reset would change nothing
ResetReached ==
  (last.kind = "reset" /\ fault = "none") =>
    /\ registers = AfterReset
    /\ \A f \in {FlagC, FlagZ, FlagI, FlagD, FlagB, FlagU, FlagV, FlagN} :
         FlagContains(registers.status, f) <=> f \in {FlagI, FlagU}
    /\ CpuReset(Cpu).registers = registers
    /\ CpuReset(Cpu).bus = bus
    /\ CpuReset(Cpu).fault = "none"

\* a reset changes no byte of RAM or ROM
ResetKeepsMemory ==
  last'.kind = "reset" => bus' = bus

\* C13: reset, from any register state, sets A = X = Y = 0, status = 0x24,
\* SP = 0xFD and PC = the little-endian word read through the bus at
\* 0xFFFC/0xFFFD; it changes no memory byte and is idempotent.
C13_Reset ==
  /\ []ResetReached
  /\ [][ResetKeepsMemory]_vars

\* a reset after a run that left 0x5A in A and in RAM, over a cartridge
\* whose two vector bytes differ
C13_Witness ==
  /\ last.kind = "reset" /\ fault = "none"
  /\ VecAt(bus.cpu_vram, 16) = 90
  /\ registers.a = 0
  /\ registers.program_counter > 255
  /\ registers.program_counter % 256 # registers.program_counter \div 256

\* a CPU that was constructed and never reset holds the reset state
NewIsResetState ==
  run = "new" =>
    /\ registers.a = 0 /\ registers.x = 0 /\ registers.y = 0
    /\ registers.status = 36
    /\ registers.stack_pointer = 253

\* the first callback of a run entered without a reset sees P = 24, SP = FD
FirstCallbackSeesResetState ==
  (run = "new" /\ run' = "loop") =>
    /\ registers'.status = 36
    /\ registers'.stack_pointer = 253

\* C14: a CPU just constructed, before any reset, has A = X = Y = 0,
\* status = 0x24 and SP = 0xFD, as after a reset; run from a PC set by hand
\* without a reset, the first callback observes P = 24 and SP = FD.
C14_NewCpuState ==
  /\ []NewIsResetState
  /\ [][FirstCallbackSeesResetState]_vars

\* the bytes of program are in RAM from 0x0600 on
LoadedAt(b, program) ==
  \A i \in 1..Len(program) : BusRead(b, LoadBase + i - 1).value = program[i]

\* C15: load(program) copies byte i of the program to 0x0600 + i and sets
\* the reset vector at 0xFFFC to 0x0600 without a fatal error: a reset after
\* it leaves PC = 0x0600, and load_and_run enters the loop at the program's
\* first byte.
C15_LoadSetsVector ==
  /\ last.kind = "load" =>
       /\ fault = "none"
       /\ \E program \in LoadPrograms : LoadedAt(bus, program)
       /\ BusReadU16(bus, 65532) = Value(LoadBase)
       /\ CpuReset(Cpu).registers.program_counter = LoadBase
  /\ last.kind = "load_and_run" =>
       /\ fault = "none"
       /\ run = "loop"
       /\ registers = RegistersReset(LoadBase)

\* the bytes of program are in RAM from address 100 on
ProgramAt(b, program) ==
  \A i \in 1..Len(program) : BusRead(b, ProgramBase + i - 1).value = program[i]

\* the run loop returned at the BRK that is byte k (from 0) of the program
HaltedAt(k) ==
  /\ run = "returned"
  /\ fault = "none"
  /\ last.kind = "instr"
  /\ last.code = 0
  /\ last.pc = ProgramBase + k

\* C16: the program A9 v 00 (LDA #v; BRK) halts at the BRK with A = v,
\* Zero set iff v = 0 and Negative set iff bit 7 of v is set, for every
\* byte v.
C16_LdaImmediate ==
  \A v \in 0..255 :
    (HaltedAt(2) /\ ProgramAt(bus, LdaProgram(v))) =>
      /\ registers.a = v
      /\ FlagContains(registers.status, FlagZ) <=> (v = 0)
      /\ FlagContains(registers.status, FlagN) <=> (v >= 128)

\* LDA #$05; BRK run from the reset state: A = 5, Zero and Negative clear
C16_Witness ==
  /\ HaltedAt(2) /\ ProgramAt(bus, LdaProgram(5))
  /\ registers.a = 5
  /\ registers.stack_pointer = 253
  /\ registers.status = 36

\* LDA #v; TAX; INX; BRK halts with A = v and X = (v + 1) mod 256; n times
\* INX then BRK, entered with X = 0, halts with X = n mod 256
IndexXPrograms ==
  /\ \A v \in 0..255 :
       (HaltedAt(4) /\ ProgramAt(bus, TaxInxProgram(v))) =>
         /\ registers.a = v
         /\ registers.x = (v + 1) % 256
  /\ \A n \in InxCounts :
       (HaltedAt(n) /\ ProgramAt(bus, InxProgram(n))) =>
         registers.x = n % 256

\* after a TAX or an INX, Zero and Negative are those of the new X
IndexXFlags ==
  (last.kind = "instr" /\ last.code \in {\hAA, \hE8} /\ fault = "none") =>
    /\ FlagContains(registers.status, FlagZ) <=> (registers.x = 0)
    /\ FlagContains(registers.status, FlagN) <=> (registers.x >= 128)

\* a TAX copies A to X and an INX adds one to X, modulo 256
IndexXStep ==
  /\ (last'.kind = "instr" /\ last'.code = \hAA) =>
       (registers'.x = registers.a /\ registers'.a = registers.a)
  /\ (last'.kind = "instr" /\ last'.code = \hE8) =>
       registers'.x = (registers.x + 1) % 256

\* C17: A9 v AA E8 00 halts with A = v and X = (v + 1) mod 256; E8 n times
\* then 00, from X = 0, halts with X = n mod 256; after each TAX or INX,
\* Zero and Negative reflect the new X.
C17_TaxInx ==
  /\ [](IndexXPrograms /\ IndexXFlags)
  /\ [][IndexXStep]_vars

\* 256 times INX has brought X back to 0 with Zero set
C17_Witness ==
  /\ HaltedAt(256) /\ ProgramAt(bus, InxProgram(256))
  /\ registers.x = 0
  /\ FlagContains(registers.status, FlagZ)

----------------------------------------------------------------------------
(* The accumulator arithmetic on its own: Registers::add_to_a and the      *)
(* operand transform of SBC, applied once to every accumulator, operand    *)
(* and incoming carry.                                                     *)

\* values around the sign and the carry boundaries
AluSample == {0, 1, 127, 128, 255}

\* the status after reset with Carry clear and set, and the same two with
\* Zero, Overflow and Negative already set
AluStatuses == {\h24, \h25}
AluDirtyStatuses == {\hE6, \hE7}

\* the registers the arithmetic starts from
AluRegisters ==
  { [RegistersReset(0) EXCEPT !.a = a, !.status = status] :
      a \in 0..255, status \in AluStatuses }
  \cup
  { [RegistersReset(0) EXCEPT !.a = a, !.status = status] :
      a \in AluSample, status \in AluDirtyStatuses }

\* the operand of the call, and the call once made
AluCall(kind, data) == [Call(kind, 0) EXCEPT !.data = data]

InitAlu ==
  /\ rom = NoRom
  /\ loaded = NotLoaded
  /\ bus = NoBus
  /\ registers \in AluRegisters
  /\ fault = "none"
  /\ run = "alu"
  /\ \E data \in 0..255 : last = AluCall("operand", data)
  /\ overflow_checks = TRUE

\* self.registers.add_to_a(data)
AddToA ==
  /\ run = "alu"
  /\ last.kind = "operand"
  /\ registers' = add_to_a(registers, last.data)
  /\ last' = AluCall("add_to_a", last.data)
  /\ UNCHANGED <<rom, loaded, bus, fault, run, overflow_checks>>

\* the arithmetic of SBC on the byte read
SubtractFromA ==
  /\ run = "alu"
  /\ last.kind = "operand"
  /\ registers' = add_to_a(registers, SbcOperand(last.data))
  /\ last' = AluCall("sbc", last.data)
  /\ UNCHANGED <<rom, loaded, bus, fault, run, overflow_checks>>

NextAlu == AddToA \/ SubtractFromA

SpecAlu == InitAlu /\ [][NextAlu]_vars

\* the incoming carry as a number
CarryIn(regs) == IF FlagContains(regs.status, FlagC) THEN 1 ELSE 0

\* new holds total modulo 256, Carry tells that total passed 255, Overflow
\* that the sign of the result differs from the sign of the operand b and
\* from the sign of the old accumulator, Zero and Negative describe new.a
AddsUp(old, b, total, new) ==
  /\ new.a = total % 256
  /\ FlagContains(new.status, FlagC) <=> (total > 255)
  /\ FlagContains(new.status, FlagV) <=>
       (((b >= 128) # (new.a >= 128)) /\ ((old.a >= 128) # (new.a >= 128)))
  /\ FlagContains(new.status, FlagZ) <=> (new.a = 0)
  /\ FlagContains(new.status, FlagN) <=> (new.a >= 128)

AddToAStep ==
  (last'.kind = "add_to_a") =>
    AddsUp(registers, last.data, registers.a + last.data + CarryIn(registers),
           registers')

\* C18: for all 8-bit a, b and incoming carry c, add_to_a yields
\* A = (a + b + c) mod 256, Carry = (a + b + c > 255), Overflow = ((b XOR
\* result) AND (a XOR result) AND 0x80 != 0) with the old accumulator a, and
\* Zero and Negative set from the new A.
C18_AddToA == [][AddToAStep]_vars

\* 0x50 + 0x50 = 0xA0: two positive operands, a negative result
C18_Witness ==
  /\ last.kind = "add_to_a" /\ last.data = \h50
  /\ registers.a = \hA0
  /\ FlagContains(registers.status, FlagV)
  /\ FlagContains(registers.status, FlagN)
  /\ ~FlagContains(registers.status, FlagC)

\* a - b - (1 - c), the difference SBC is to leave
Difference(regs, b) == regs.a - b - (1 - CarryIn(regs))

SubtractStep ==
  (last'.kind = "sbc") =>
    /\ SbcOperand(last.data) = BitXor(last.data, \hFF)
    /\ registers' = add_to_a(registers, BitXor(last.data, \hFF))
    /\ registers'.a = (Difference(registers, last.data) + 256) % 256
    /\ FlagContains(registers'.status, FlagC) <=>
         (Difference(registers, last.data) >= 0)

\* C19: SBC with operand b is add_to_a(b XOR 0xFF): the negate-then-subtract-
\* one transform equals bitwise NOT for all 256 operands, so the new
\* A = (a - b - (1 - c)) mod 256 and Carry is set iff no borrow occurred.
C19_SbcIsAddOfComplement == [][SubtractStep]_vars

\* 0x00 - 0x80 with Carry set: the operand whose negation wraps; the result
\* is 0x80 and a borrow occurred
C19_Witness ==
  /\ last.kind = "sbc" /\ last.data = \h80
  /\ registers.a = \h80
  /\ ~FlagContains(registers.status, FlagC)
  /\ FlagContains(registers.status, FlagV)

----------------------------------------------------------------------------
(* JMP indirect.                                                           *)

\* the byte the bus holds at address
Peek(b, address) == BusRead(b, address).value

\* the pointer p of the JMP (p) fetched at pc
PointerOf(b, pc) == Peek(b, pc + 1) + 256 * Peek(b, pc + 2)

\* the target the claim gives for pointer p: the low byte at p, the high
\* byte at the start of p's page when p is the last byte of the page and at
\* p + 1 otherwise
ClaimedTarget(b, p) ==
  IF p % 256 = 255
    THEN Peek(b, p) + 256 * Peek(b, p - 255)
    ELSE Peek(b, p) + 256 * Peek(b, p + 1)

\* a JMP (p) was executed last and did not fault
JumpedIndirect ==
  /\ last.kind = "instr"
  /\ last.code = \h6C
  /\ fault = "none"

\* C20: JMP indirect through a pointer p whose low byte is 0xFF takes the
\* target's low byte from p and its high byte from p & 0xFF00, not from
\* p + 1; for every other p the target is the little-endian 16-bit value at
\* p and p + 1.  (The target is the address the jump resolved, last.address;
\* the program counter holds it unless it equals the address after the
\* opcode byte, where the loop's advance step applies.)
C20_JmpIndirect ==
  JumpedIndirect =>
    /\ last.address = ClaimedTarget(bus, PointerOf(bus, last.pc))
    /\ (last.address # last.pc + 1) =>
         registers.program_counter = last.address

\* JMP ($02FF) with $02FF = $80, $0200 = $40 and $0300 = $50 went to $4080
C20_Witness ==
  /\ JumpedIndirect
  /\ PointerOf(bus, last.pc) = \h02FF
  /\ Peek(bus, \h02FF) = \h80 /\ Peek(bus, \h0200) = \h40
  /\ Peek(bus, \h0300) = \h50
  /\ registers.program_counter = \h4080

----------------------------------------------------------------------------
(* JSR and RTS.                                                            *)

\* the stack cell n places above the stack pointer sp
StackCell(b, sp, n) == Peek(b, 256 + ((sp + n) % 256))

\* the step is the execution of opcode code and did not end in a panic
Executed(code) ==
  /\ last'.kind = "instr"
  /\ last'.code = code
  /\ fault' = "none"

\* JSR at P stores the high byte of P + 2 at 0x0100 + SP, the low byte one
\* cell below, and lowers SP by two
JsrStep ==
  Executed(\h20) =>
    /\ StackCell(bus', registers.stack_pointer, 0) = Hi(last'.pc + 2)
    /\ StackCell(bus', registers.stack_pointer, 255) = Lo(last'.pc + 2)
    /\ registers'.stack_pointer = (registers.stack_pointer + 254) % 256

\* RTS takes the low byte from the cell above SP, the high byte from the
\* next one, adds 1 and raises SP by two
RtsStep ==
  Executed(\h60) =>
    /\ registers'.program_counter =
         (StackCell(bus, registers.stack_pointer, 1)
            + 256 * StackCell(bus, registers.stack_pointer, 2) + 1) % 65536
    /\ registers'.stack_pointer = (registers.stack_pointer + 2) % 256

\* the program with the JSR at P = ProgramBase + k has come back to P + 3 and
\* halted there: SP is where the JSR found it, for P + 2 is in the cell at SP
\* and the cell below it
JsrReturned(k, body) ==
  (HaltedAt(k + 3) /\ ProgramAt(bus, JsrProgram(k, body))) =>
    /\ registers.program_counter = ProgramBase + k + 4
    /\ registers.stack_pointer \in {\h00, \hFD}
    /\ StackCell(bus, registers.stack_pointer, 0) = Hi(ProgramBase + k + 2)
    /\ StackCell(bus, registers.stack_pointer, 255) = Lo(ProgramBase + k + 2)

JsrRoundTrip ==
  /\ \A k \in 0..2 : \A body \in SubBodies : JsrReturned(k, body)
  /\ (HaltedAt(3) /\ ProgramAt(bus, NestedJsrProgram)) =>
       registers.stack_pointer \in {\h00, \hFD}

\* C21: JSR at address P, then RTS with no unbalanced stack operation in
\* between, restores PC to P + 3 and SP to its value before the JSR; JSR
\* pushes P + 2 high byte first then low byte, and RTS pulls low byte then
\* high byte and adds 1.
C21_JsrRts ==
  /\ []JsrRoundTrip
  /\ [][JsrStep /\ RtsStep]_vars

\* the subroutine with PHA and PLA returned to the BRK after the JSR at 101,
\* from the reset state
C21_Witness ==
  /\ HaltedAt(4) /\ ProgramAt(bus, JsrProgram(1, <<\h48, \h68>>))
  /\ registers.stack_pointer = \hFD
  /\ StackCell(bus, \hFD, 0) = 0 /\ StackCell(bus, \hFD, 255) = 103

----------------------------------------------------------------------------
(* BRK.                                                                    *)

\* the iteration that fetches 0x00 ends the loop and changes nothing but the
\* program counter, which the fetch moved past the opcode byte
BrkStep ==
  Executed(\h00) =>
    /\ run' = "returned"
    /\ bus' = bus
    /\ registers' =
         [registers EXCEPT !.program_counter = (last'.pc + 1) % 65536]

\* C22: fetching opcode 0x00 (BRK) returns control to the caller at once:
\* nothing is pushed on the stack, SP, A, X, Y, the flags and all memory are
\* unchanged, no jump through the vector at 0xFFFE happens, and PC is left at
\* the BRK's address + 1.
C22_BrkReturns == [][BrkStep]_vars

\* LDA #90; STA 16; LDA 16; NOP; BRK has returned at its BRK: PC is one past
\* it, not the word at 0xFFFE, and SP is as reset left it
C22_Witness ==
  /\ HaltedAt(9) /\ ProgramAt(bus, StoreLoadProgram(90, 16, 16))
  /\ registers.program_counter = ProgramBase + 10
  /\ registers.program_counter # PointerOf(bus, \hFFFD)
  /\ registers.stack_pointer = \hFD
  /\ registers.a = 90

----------------------------------------------------------------------------
(* The ways out of the run loop.                                           *)

\* the loop has returned only at a 0x00 it fetched, and without a panic
ReturnedAtBrk ==
  (run = "returned") =>
    (last.kind = "instr" /\ last.code = \h00 /\ fault = "none")

\* inside the loop, unless a panic ended the run, another iteration follows:
\* it returns or it continues
LoopGoesOn ==
  (run = "loop" /\ fault = "none") => RunIteration(Cpu).returned \in BOOLEAN

\* an iteration leaves the loop only by the return at 0x00
LoopExit ==
  (run = "loop" /\ run' # "loop") => (Executed(\h00) /\ run' = "returned")

\* JMP to its own address is running
JmpSelfRunning ==
  /\ run = "loop" /\ fault = "none"
  /\ ProgramAt(bus, JmpProgram(ProgramBase))
  /\ registers.program_counter = ProgramBase

\* INX; JMP back is running
InxLoopRunning ==
  /\ run = "loop" /\ fault = "none"
  /\ ProgramAt(bus, InxLoopProgram)
  /\ registers.program_counter \in {ProgramBase, ProgramBase + 1}

\* a running loop that fetches no 0x00 and does not panic is running after
\* every step
RunsOn ==
  /\ JmpSelfRunning => JmpSelfRunning'
  /\ InxLoopRunning => InxLoopRunning'

\* C23: the run loop returns normally only when the opcode it has just
\* fetched is 0x00; every other way out is a fatal error, and a program that
\* never fetches 0x00 and never faults (JMP to its own address) keeps the
\* loop running forever.
C23_LoopExits ==
  /\ [](ReturnedAtBrk /\ LoopGoesOn)
  /\ [][LoopExit /\ RunsOn]_vars

\* INX; JMP back has gone round 256 times and is still in the loop
C23_Witness ==
  /\ InxLoopRunning
  /\ last.kind = "instr" /\ last.code = \h4C
  /\ registers.x = 0
  /\ FlagContains(registers.status, FlagZ)

----------------------------------------------------------------------------
(* The run loop under a callback: run_with_callback as the test of         *)
(* src/trace.rs calls it, with a closure that pushes what it sees of the   *)
(* CPU onto result.  run is "traced" under that closure and "patched"      *)
(* under a closure that records and then writes one byte of memory.  last  *)
(* holds, beside the instruction fetched, the CPU the closure was handed   *)
(* (seen) and the vector the closure filled (result).                      *)

\* the longest vector of trace lines followed
MaxTrace == 6

\* the cell the writing closure writes, and the byte it writes there (INX)
Patch == [cell |-> ProgramBase + 5, byte |-> \hE8]

\* what trace(cpu) shows of the registers
TraceLine(m) ==
  [pc |-> m.registers.program_counter,
   a |-> m.registers.a, x |-> m.registers.x, y |-> m.registers.y,
   p |-> m.registers.status, sp |-> m.registers.stack_pointer]

\* trace(cpu) on the opcode byte it read: it panics on a read that panics
\* and on a byte without table entry, and leaves the CPU as it is
Traced(m, code) ==
  IF code.fault # "none" THEN Fail(m, code.fault)
  ELSE IF code.value \notin DOMAIN OPCODES_MAP THEN Fail(m, "CODE")
  ELSE m

\* the CPU after the closure: |cpu| result.push(trace(cpu)), followed under
\* "patched" by cpu.bus.write(cell, byte)
Patched(m, kind) ==
  IF m.fault # "none" \/ kind # "patched" THEN m
  ELSE [m EXCEPT !.bus = BusWrite(m.bus, Patch.cell, Patch.byte).bus,
                 !.fault = BusWrite(m.bus, Patch.cell, Patch.byte).fault]

Callback(m, kind) ==
  Patched(Traced(m, BusRead(m.bus, m.registers.program_counter)), kind)

\* the rest of the iteration on the CPU the closure left
IterateAfter(m0) ==
  IF m0.fault # "none" THEN Continues(m0) ELSE RunIteration(m0)

\* an iteration whose opcode byte is read before the closure is called
CallbackAfterFetch(m, kind) ==
  IF Callback(m, kind).fault # "none" THEN Continues(Callback(m, kind))
  ELSE Decode(Callback(m, kind), BusRead(m.bus, m.registers.program_counter),
              AddU16(m.registers.program_counter, 1))

\* loop { callback(self); let code = self.bus.read(..); ... }
CallbackIteration(m, kind) == IterateAfter(Callback(m, kind))

\* LDX #1; DEX; DEY; BRK
TraceTestProgram == <<\hA2, \h01, \hCA, \h88, \h00>>

\* LDA #NOP; STA cell; cell: BRK -- the store is followed by the fetch at cell
PatchFetchProgram ==
  <<\hA9, \hEA, \h8D, Lo(Patch.cell), Hi(Patch.cell), \h00>>

\* JMP l; 0; 0; cell: 0; l: LDA #90; STA cell; LDA cell; BRK
PatchLoadProgram ==
  <<\h4C, Lo(ProgramBase + 6), Hi(ProgramBase + 6), \h00, \h00, \h00,
    \hA9, 90, \h8D, Lo(Patch.cell), Hi(Patch.cell),
    \hAD, Lo(Patch.cell), Hi(Patch.cell), \h00>>

TracePrograms ==
  { TraceTestProgram, PatchFetchProgram, PatchLoadProgram, InxLoopProgram,
    LdaProgram(5), StoreLoadProgram(90, 16, 16), JsrProgram(0, <<>>),
    <<\h00>>, <<\h02>> }

\* Bus::new(test_rom()), the bus.write calls, CPU::new(bus) and the
\* registers set by hand
InitTrace ==
  /\ rom = CpuRom
  /\ loaded = CartridgeNew(create_rom(rom))
  /\ \E program \in TracePrograms :
       bus = WriteProgram(BusNew(loaded.cartridge), ProgramBase, program)
  /\ \E a \in {0, 1}, x \in {0, 2}, y \in {0, 3} :
       registers = [CpuNew(bus).registers EXCEPT !.a = a, !.x = x, !.y = y]
  /\ fault = "none"
  /\ run = "new"
  /\ last = NoLast
  /\ overflow_checks \in BOOLEAN

\* last under a callback: the call or the instruction, the CPU handed to the
\* closure and the vector it has filled
WithTrace(call, seen, result) ==
  [kind |-> call.kind, pc |-> call.pc, code |-> call.code,
   address |-> call.address, data |-> call.data, reported |-> call.reported,
   seen |-> seen, result |-> result]

\* cpu.registers.program_counter = 0x64; cpu.run_with_callback(closure)
RunWithCallback ==
  /\ run = "new"
  /\ fault = "none"
  /\ registers' = [registers EXCEPT !.program_counter = ProgramBase]
  /\ run' \in {"traced", "patched"}
  /\ last' = WithTrace(Call("run_with_callback", ProgramBase), Cpu, <<>>)
  /\ UNCHANGED <<rom, loaded, bus, fault, overflow_checks>>

\* one iteration of the loop: the closure, then fetch, decode, execute and
\* advance
TracedStep ==
  /\ run \in {"traced", "patched"}
  /\ fault = "none"
  /\ Len(last.result) < MaxTrace
  /\ \E r \in {CallbackIteration(Cpu, run)} :
       /\ bus' = r.cpu.bus
       /\ registers' = r.cpu.registers
       /\ fault' = r.cpu.fault
       /\ run' = IF r.returned THEN "returned" ELSE run
  /\ \E m0 \in {Callback(Cpu, run)} :
       last' = WithTrace(Fetched(m0, BusRead(m0.bus, registers.program_counter)),
                         Cpu, Append(last.result, TraceLine(Cpu)))
  /\ UNCHANGED <<rom, loaded, overflow_checks>>

NextTrace == RunWithCallback \/ TracedStep

SpecTrace == InitTrace /\ [][NextTrace]_vars

\* the byte the fetch of an iteration finds at pc: what the closure wrote
\* there in this iteration, else what memory held
FetchSees(kind, b, pc) ==
  IF kind = "patched" /\ pc = Patch.cell THEN Patch.byte ELSE Peek(b, pc)

\* an iteration calls the closure once, before its fetch: result grows by
\* one line, the line and the CPU seen are the registers and memory the
\* iteration began with, its PC is that of the opcode fetched, and the
\* opcode fetched (an INX, which is executed) and the operand loaded are
\* what the closure wrote
CallbackStep ==
  (last'.kind = "instr") =>
    /\ Len(last'.result) = Len(last.result) + 1
    /\ last'.result[Len(last'.result)] = TraceLine(Cpu)
    /\ last'.result[Len(last'.result)].pc = last'.pc
    /\ last'.seen = Cpu
    /\ (fault' = "none") => (last'.code = FetchSees(run, bus, last'.pc))
    /\ (fault' = "none" /\ run = "patched" /\ last'.pc = Patch.cell) =>
         (registers'.x = (registers.x + 1) % 256)
    /\ (fault' = "none" /\ run = "patched" /\ last'.code = \hAD
          /\ last'.address = Patch.cell) => (registers'.a = Patch.byte)

\* the closure is called before the fetch of the halting BRK as well: the
\* last line of a returned run is at the BRK
CallbackAtBrk ==
  (run = "returned") =>
    /\ last.code = \h00
    /\ last.result[Len(last.result)].pc = last.pc

\* C24: the callback is invoked exactly once per loop iteration, before the
\* opcode fetch (also before the fetch of the halting BRK): its k-th
\* invocation observes PC at the k-th opcode and registers and memory as
\* left by the first k-1 instructions, and a memory write made by the
\* callback is seen by the fetch and execution of that same iteration.
C24_Callback ==
  /\ []CallbackAtBrk
  /\ [][CallbackStep]_vars

\* under the writing closure LDA #90; STA cell; LDA cell has loaded the byte
\* the closure wrote, not the 90 the fourth call saw in A and in the cell
C24_Witness ==
  /\ run = "returned"
  /\ Peek(bus, ProgramBase) = \h4C
  /\ Peek(bus, ProgramBase + 11) = \hAD
  /\ Len(last.result) = 5
  /\ last.result[4].a = 90
  /\ last.result[5].a = Patch.byte
  /\ last.result[5].pc = ProgramBase + 14
  /\ registers.a = Patch.byte

----------------------------------------------------------------------------
(* Where control-flow instructions leave the program counter.              *)

\* the step executed a branch whose condition held
BranchTaken ==
  /\ run = "loop"
  /\ last'.kind = "instr"
  /\ last'.code \in BranchCodes
  /\ fault' = "none"
  /\ BranchCondition(last'.code, registers.status)

\* the target of the branch at address pc: pc + 2 + the sign-extended offset
BranchTarget(b, pc) ==
  (pc + 2 + AsI8(Peek(b, (pc + 1) % 65536)) + 65536) % 65536

\* a taken branch ends at its target
BranchLands ==
  BranchTaken => (registers'.program_counter = BranchTarget(bus, last'.pc))

\* JMP and JSR end at the target they resolved
JumpLands ==
  (run = "loop" /\ last'.kind = "instr" /\ last'.code \in JmpCodes \cup {\h20}
     /\ fault' = "none") =>
    (registers'.program_counter = last'.address)

\* C25: every control-flow instruction that redirects execution leaves PC
\* exactly at its target and is never additionally advanced by the
\* post-execute step: a taken branch at P with offset byte o ends with
\* PC = (P + 2 + sign-extended o) mod 65536, including o = 0xFF, and JMP and
\* JSR end with PC equal to their resolved target, including a target equal
\* to P + 1.
C25_RedirectLands == [][BranchLands /\ JumpLands]_vars

\* the step executed an instruction that does not redirect control: not a
\* jump, a call or a return, and not a branch whose condition held
NoRedirect ==
  /\ run = "loop"
  /\ last'.kind = "instr"
  /\ fault' = "none"
  /\ last'.code \notin JmpCodes \cup {\h20, \h60, \h40}
  /\ ~(last'.code \in BranchCodes
         /\ BranchCondition(last'.code, registers.status))

\* after it the program counter is past the instruction
MovesOn ==
  NoRedirect =>
    (registers'.program_counter =
       (last'.pc + OPCODES_MAP[last'.code].length) % 65536)

\* C26: for every instruction that does not redirect control flow (a branch
\* whose condition is false included), located at address P with table
\* length L, PC after the loop iteration is P + L.
C26_AdvanceByLength == [][MovesOn]_vars

\* BEQ +127 at 100 with Zero clear was not taken: PC is 102
C26_Witness ==
  /\ last.kind = "instr" /\ last.code = \hF0 /\ last.pc = ProgramBase
  /\ Peek(bus, ProgramBase + 1) = \h7F
  /\ ~FlagContains(registers.status, FlagZ)
  /\ run = "loop" /\ fault = "none"
  /\ registers.program_counter = ProgramBase + 2

----------------------------------------------------------------------------
(* Bytes that are no instruction.                                          *)

\* the iteration fetched a byte that has no arm in the dispatch: the run is
\* over with a panic (of the table lookup or of the dispatch), the loop has
\* not returned, and memory and all registers but the program counter,
\* which the fetch moved by one, are as before
NoArmStep ==
  (run = "loop" /\ last'.kind = "instr" /\ last'.code \in NoArmCodes) =>
    /\ fault' \in {"Opcode is not recognized", "opcode not support"}
    /\ run' = "loop"
    /\ bus' = bus
    /\ registers' =
         [registers EXCEPT !.program_counter = (last'.pc + 1) % 65536]

\* a run that a panic ended stays ended
FaultEnds == (fault # "none") => (fault' = fault /\ UNCHANGED vars)

\* C27: a fetched byte that has no opcode-table entry, or no dispatch arm,
\* stops the run loop with a fatal error; it is never executed as a no-op or
\* skipped, and when the error is raised no memory byte and no register
\* other than PC has been modified by that iteration.
C27_UnknownOpcodeFatal == [][NoArmStep /\ FaultEnds]_vars

\* 0x6B, which has a table entry and no arm, ended the run after LDA #5; TAX:
\* X is 5 and the INX bytes behind it were not executed
C27_Witness ==
  /\ fault = "opcode not support"
  /\ last.kind = "instr" /\ last.code = \h6B /\ last.pc = ProgramBase + 3
  /\ registers.x = 5
  /\ registers.program_counter = ProgramBase + 4

-----------------------------------------------------------------------------
(* The status register on the stack: PHP, PLP and RTI, run by the loop over *)
(* programs that put every byte value on the stack.                         *)

\* where the RTI programs return to: the byte behind the RTI, a cell of the
\* zero page and a cell of the PRG ROM
RtiTargets == {ProgramBase + 10, \h00F0, \h4080}

\* the status bytes returned to the targets other than the first
RtiSample == {\h00, \h10, \h20, \h30, \hCF, \hFF}

\* LDA #b; PHA; PLP; PHP; BRK
StatusProgram(b) == <<\hA9, b, \h48, \h28, \h08, \h00>>

\* LDA #hi; PHA; LDA #lo; PHA; LDA #b; PHA; RTI
RtiProgram(b, target) ==
  <<\hA9, Hi(target), \h48, \hA9, Lo(target), \h48, \hA9, b, \h48, \h40>>

StackPrograms ==
  { StatusProgram(b) : b \in 0..255 }
  \cup { RtiProgram(b, ProgramBase + 10) : b \in 0..255 }
  \cup { RtiProgram(b, target) : b \in RtiSample, target \in RtiTargets }
  \cup { <<\h08, \h08, \h00>> }

InitStack ==
  /\ rom = CpuRom
  /\ loaded = CartridgeNew(create_rom(rom))
  /\ loaded.kind = "Ok"
  /\ \E program \in StackPrograms :
       bus = WriteProgram(BusNew(loaded.cartridge), ProgramBase, program)
  /\ registers = CpuNew(bus).registers
  /\ fault = "none"
  /\ run = "new"
  /\ last = NoLast
  /\ overflow_checks \in BOOLEAN

SpecStack == InitStack /\ [][NextCpu]_vars

\* the loop fetched opcode code in this step
FetchedCode(code) ==
  /\ run = "loop"
  /\ last'.kind = "instr"
  /\ last'.code = code

\* PHP stores status OR 0x30 in the cell at SP, lowers SP and changes no
\* register but SP and PC, and no other cell
PhpStep ==
  FetchedCode(\h08) =>
    /\ fault' = "none"
    /\ StackCell(bus', registers.stack_pointer, 0) =
         BitOr(registers.status, \h30)
    /\ bus' = BusWrite(bus, 256 + registers.stack_pointer,
                       BitOr(registers.status, \h30)).bus
    /\ registers' =
         [registers EXCEPT
            !.stack_pointer = (registers.stack_pointer + 255) % 256,
            !.program_counter = (last'.pc + 1) % 65536]

\* C28: PHP writes (status OR 0x30) to the stack cell 0x0100 + SP and
\* decrements SP by one; the live status register, including its B and U
\* bits, is unchanged by it, as are A, X and Y.
C28_PhpPushes == [][PhpStep]_vars

\* after LDA #0; PHA; PLP the status is 0x20; PHP stored 0x30 at 0x01FD and
\* left the status at 0x20
C28_Witness ==
  /\ last.kind = "instr" /\ last.code = \h08 /\ fault = "none"
  /\ registers.status = \h20
  /\ registers.stack_pointer = \hFC
  /\ Peek(bus, \h01FD) = \h30
  /\ registers.a = 0

\* the status the claim gives for the pulled byte b
ClaimedStatus(b) == BitOr(BitAnd(b, \hEF), \h20)

\* PLP takes b from the cell above SP
PlpStep ==
  FetchedCode(\h28) =>
    /\ fault' = "none"
    /\ bus' = bus
    /\ registers' =
         [registers EXCEPT
            !.status = ClaimedStatus(StackCell(bus, registers.stack_pointer, 1)),
            !.stack_pointer = (registers.stack_pointer + 1) % 256,
            !.program_counter = (last'.pc + 1) % 65536]

\* RTI takes b from the cell above SP and PC from the two cells above that
RtiStep ==
  FetchedCode(\h40) =>
    /\ fault' = "none"
    /\ bus' = bus
    /\ registers' =
         [registers EXCEPT
            !.status = ClaimedStatus(StackCell(bus, registers.stack_pointer, 1)),
            !.stack_pointer = (registers.stack_pointer + 3) % 256,
            !.program_counter =
               StackCell(bus, registers.stack_pointer, 2)
                 + 256 * StackCell(bus, registers.stack_pointer, 3)]

\* C29: for every one of the 256 byte values b found on the stack, PLP sets
\* status to (b AND 0xEF) OR 0x20, and RTI does the same and then sets PC to
\* the next pulled 16-bit value (low byte first, no +1 adjustment), raising
\* SP by 1 and 3 respectively; neither raises the invalid-status fatal error
\* for any b.
C29_PullStatus == [][PlpStep /\ RtiStep]_vars

\* RTI found 0xFF, 0x80, 0x40 above SP: the status is 0xEF, PC is 0x4080 and
\* SP is back where reset left it
C29_Witness ==
  /\ last.kind = "instr" /\ last.code = \h40 /\ fault = "none"
  /\ StackCell(bus, registers.stack_pointer, 254) = \hFF
  /\ registers.status = \hEF
  /\ registers.program_counter = \h4080
  /\ registers.stack_pointer = \hFD

-----------------------------------------------------------------------------
(* The comparisons on their own: CMP, CPX and CPY with an immediate        *)
(* operand, applied once to every register value and operand.              *)

\* the registers a comparison starts from: A, X and Y differ from each other
CompareRegisters(r, status) ==
  [RegistersReset(ProgramBase + 1) EXCEPT
     !.a = r, !.x = (r + 85) % 256, !.y = (r + 170) % 256,
     !.status = status]

\* the memory of a comparison: its opcode at ProgramBase, the operand behind
CompareBus(data) ==
  WriteProgram(BusNew(CartridgeNew(create_rom(CpuRom)).cartridge),
               ProgramBase, <<\hC9, data>>)

InitCompare ==
  /\ rom = CpuRom
  /\ loaded = CartridgeNew(create_rom(rom))
  /\ \E data \in 0..255 :
       /\ bus = CompareBus(data)
       /\ last = AluCall("operand", data)
       /\ \/ \E r \in 0..255 : registers = CompareRegisters(r, \h24)
          \/ \E r \in AluSample, status \in AluDirtyStatuses :
               /\ data \in AluSample
               /\ registers = CompareRegisters(r, status)
  /\ fault = "none"
  /\ run = "compare"
  /\ overflow_checks = TRUE

\* the call of one of the three comparisons, as the dispatch makes it
Comparison(kind) ==
  CASE kind = "cmp" -> compare_memory_with_accumulator(Cpu, "Immediate")
    [] kind = "cpx" -> compare_memory_and_index_x(Cpu, "Immediate")
    [] kind = "cpy" -> compare_memory_and_index_y(Cpu, "Immediate")

Compare ==
  /\ run = "compare"
  /\ last.kind = "operand"
  /\ \E kind \in {"cmp", "cpx", "cpy"} :
       /\ \E m \in {Comparison(kind)} :
            /\ bus' = m.bus
            /\ registers' = m.registers
            /\ fault' = m.fault
       /\ last' = AluCall(kind, last.data)
  /\ UNCHANGED <<rom, loaded, run, overflow_checks>>

NextCompare == Compare

SpecCompare == InitCompare /\ [][NextCompare]_vars

\* the register a comparison compares
ComparedRegister(kind, regs) ==
  CASE kind = "cmp" -> regs.a
    [] kind = "cpx" -> regs.x
    [] kind = "cpy" -> regs.y

\* new has Carry, Zero and Negative as the claim gives them for r and m and
\* everything else of old but, at most, the other bits of the status
ComparesAs(r, m, old, new) ==
  /\ FlagContains(new.status, FlagC) <=> (r >= m)
  /\ FlagContains(new.status, FlagZ) <=> (r = m)
  /\ FlagContains(new.status, FlagN) <=> (((r - m + 256) % 256) >= 128)
  /\ FlagContains(new.status, FlagV) <=> FlagContains(old.status, FlagV)
  /\ new.a = old.a /\ new.x = old.x /\ new.y = old.y
  /\ new.stack_pointer = old.stack_pointer

CompareStep ==
  (last'.kind \in {"cmp", "cpx", "cpy"}) =>
    /\ fault' = "none"
    /\ bus' = bus
    /\ ComparesAs(ComparedRegister(last'.kind, registers), last.data,
                  registers, registers')

\* C30: CMP, CPX and CPY with register value r and operand m set
\* Carry = (r >= m unsigned), Zero = (r == m) and Negative = bit 7 of
\* (r - m) mod 256, and leave A, X, Y, SP, Overflow and memory unchanged,
\* for all 8-bit r and m.
C30_Compare == [][CompareStep]_vars

\* CPX of X = 0x10 with 0x20: Carry and Zero clear, Negative set (0xF0)
C30_Witness ==
  /\ last.kind = "cpx" /\ last.data = \h20 /\ registers.x = \h10
  /\ Peek(bus, ProgramBase + 1) = \h20
  /\ ~FlagContains(registers.status, FlagC)
  /\ ~FlagContains(registers.status, FlagZ)
  /\ FlagContains(registers.status, FlagN)

-----------------------------------------------------------------------------
(* The shifts and rotations on their own: ASL, LSR, ROL and ROR in the      *)
(* accumulator form and in the zero-page memory form, applied once to every *)
(* byte and incoming carry.                                                 *)

\* the zero-page cell the memory forms work on
ShiftCell == 51

\* the reset status with Carry clear and set, and the two with Zero and
\* Negative already set
ShiftStatuses == {\h24, \h25, \hA6, \hA7}

ShiftOps == {"asl", "lsr", "rol", "ror"}

\* what the accumulator form of op is recorded as
AccumulatorForm(op) ==
  CASE op = "asl" -> "asl_a" [] op = "lsr" -> "lsr_a"
    [] op = "rol" -> "rol_a" [] op = "ror" -> "ror_a"

\* the memory of a shift: ASL zero-page at ProgramBase, the byte v in the cell
ShiftBus(v) ==
  WriteProgram(
    WriteProgram(BusNew(CartridgeNew(create_rom(CpuRom)).cartridge),
                 ShiftCell, <<v>>),
    ProgramBase, <<\h06, ShiftCell>>)

InitShift ==
  /\ rom = CpuRom
  /\ loaded = CartridgeNew(create_rom(rom))
  /\ \E v \in 0..255 :
       /\ bus = ShiftBus(v)
       /\ last = AluCall("operand", v)
       /\ \E status \in ShiftStatuses :
            registers = [RegistersReset(ProgramBase + 1) EXCEPT
                           !.a = v, !.status = status]
  /\ fault = "none"
  /\ run = "shift"
  /\ overflow_checks = TRUE

\* the memory form of op, as the dispatch calls it
MemoryShift(op) ==
  CASE op = "asl" -> shift_left_one_bit_memory(Cpu, "ZeroPage")
    [] op = "lsr" -> shift_one_bit_right_memory(Cpu, "ZeroPage")
    [] op = "rol" -> rotate_one_bit_left_memory(Cpu, "ZeroPage")
    [] op = "ror" -> rotate_one_bit_right_memory(Cpu, "ZeroPage")

\* the accumulator form of op, as the dispatch calls it
AccumulatorShift(op) ==
  CASE op = "asl" -> shift_left_one_bit_accumulator(Cpu)
    [] op = "lsr" -> shift_one_bit_right_accumulator(Cpu)
    [] op = "rol" -> rotate_one_bit_left_accumulator(Cpu)
    [] op = "ror" -> rotate_one_bit_right_accumulator(Cpu)

ShiftInMemory ==
  /\ run = "shift"
  /\ last.kind = "operand"
  /\ \E op \in ShiftOps :
       /\ \E m \in {MemoryShift(op)} :
            /\ bus' = m.bus
            /\ registers' = m.registers
            /\ fault' = m.fault
       /\ last' = AluCall(op, last.data)
  /\ UNCHANGED <<rom, loaded, run, overflow_checks>>

ShiftInAccumulator ==
  /\ run = "shift"
  /\ last.kind = "operand"
  /\ \E op \in ShiftOps :
       /\ \E m \in {AccumulatorShift(op)} :
            /\ bus' = m.bus
            /\ registers' = m.registers
            /\ fault' = m.fault
       /\ last' = AluCall(AccumulatorForm(op), last.data)
  /\ UNCHANGED <<rom, loaded, run, overflow_checks>>

NextShift == ShiftInMemory \/ ShiftInAccumulator

SpecShift == InitShift /\ [][NextShift]_vars

\* the value the claim gives for op on the byte v with old carry c
ClaimedShift(op, v, c) ==
  CASE op \in {"asl", "asl_a"} -> (2 * v) % 256
    [] op \in {"lsr", "lsr_a"} -> v \div 2
    [] op \in {"rol", "rol_a"} -> ((2 * v) % 256) + c
    [] op \in {"ror", "ror_a"} -> (v \div 2) + 128 * c

\* the carry the claim gives: bit 7 of v to the left, bit 0 to the right
ClaimedShiftCarry(op, v) ==
  IF op \in {"asl", "asl_a", "rol", "rol_a"} THEN v >= 128 ELSE v % 2 = 1

\* the value is new, and Carry, Zero and Negative are as claimed
ShiftsAs(op, v, c, new, status) ==
  /\ new = ClaimedShift(op, v, c)
  /\ FlagContains(status, FlagC) <=> ClaimedShiftCarry(op, v)
  /\ FlagContains(status, FlagZ) <=> (new = 0)
  /\ FlagContains(status, FlagN) <=> (new >= 128)

MemoryShiftStep ==
  (last'.kind \in ShiftOps) =>
    /\ fault' = "none"
    /\ ShiftsAs(last'.kind, last.data, CarryIn(registers),
                Peek(bus', ShiftCell), registers'.status)
    /\ registers'.a = registers.a

AccumulatorShiftStep ==
  (last'.kind \in {AccumulatorForm(op) : op \in ShiftOps}) =>
    /\ fault' = "none"
    /\ ShiftsAs(last'.kind, last.data, CarryIn(registers),
                registers'.a, registers'.status)
    /\ bus' = bus

\* C31: for every 8-bit value v and old carry c, in both accumulator and
\* memory forms: ASL gives (2v mod 256, Carry = bit 7 of v); LSR gives
\* (v div 2, Carry = bit 0 of v); ROL gives ((2v mod 256) OR c, Carry = bit 7
\* of v); ROR gives ((v div 2) OR 128c, Carry = bit 0 of v); Zero and
\* Negative are set from the new value.
C31_Shifts == [][MemoryShiftStep /\ AccumulatorShiftStep]_vars

\* ROR of 0x01 in memory with Carry set: the cell holds 0x80, Carry and
\* Negative are set and Zero is clear
C31_Witness ==
  /\ last.kind = "ror" /\ last.data = \h01
  /\ Peek(bus, ShiftCell) = \h80
  /\ registers.a = \h01
  /\ FlagContains(registers.status, FlagC)
  /\ FlagContains(registers.status, FlagN)
  /\ ~FlagContains(registers.status, FlagZ)

-----------------------------------------------------------------------------
(* The zero-page addressing modes on their own: get_operand_address for    *)
(* every operand byte and index value over a zero page whose cells all     *)
(* differ from their neighbours.                                           *)

\* the byte the zero-page cell i holds: cell 0 is not 0 as cell 0x0100 is,
\* and cells 35 and 36 hold the pointer 0xFFF8
ZeroPageFill(i) == (7 * i + 3) % 256

\* the memory of a resolution: the zero page filled, LDA with the operand
\* byte at ProgramBase in place of the two cells there
AddressBus(operand) ==
  WriteProgram(BusNew(CartridgeNew(create_rom(CpuRom)).cartridge), 0,
               [i \in 1..256 |->
                  IF i - 1 = ProgramBase + 1 THEN operand
                  ELSE ZeroPageFill(i - 1)])

ZeroPageModes ==
  {"ZeroPageX", "ZeroPageY", "IndexedIndirect", "IndirectIndexed"}

InitAddress ==
  /\ rom = CpuRom
  /\ loaded = CartridgeNew(create_rom(rom))
  /\ \E operand \in 0..255 :
       /\ bus = AddressBus(operand)
       /\ last = AluCall("operand", operand)
  /\ \E index \in 0..255 :
       registers = [RegistersReset(ProgramBase + 1) EXCEPT
                      !.x = index, !.y = (index + 85) % 256]
  /\ fault = "none"
  /\ run = "address"
  /\ overflow_checks = TRUE

\* what a resolution is recorded as: the mode and the address returned
Resolved(mode, operand, address) ==
  [AluCall(mode, operand) EXCEPT
     !.address = IF address.fault = "none" THEN address.value ELSE -1]

\* self.get_operand_address(mode) with the program counter at the operand
Resolve ==
  /\ run = "address"
  /\ last.kind = "operand"
  /\ \E mode \in ZeroPageModes :
       \E address \in {GetOperandAddress(Cpu, mode)} :
         /\ last' = Resolved(mode, last.data, address)
         /\ fault' = address.fault
  /\ UNCHANGED <<rom, loaded, bus, registers, run, overflow_checks>>

NextAddress == Resolve

SpecAddress == InitAddress /\ [][NextAddress]_vars

\* the 16-bit pointer in the zero-page cells ptr and (ptr + 1) mod 256
ClaimedPointer(b, ptr) == Peek(b, ptr) + 256 * Peek(b, (ptr + 1) % 256)

\* the effective address the claim gives
ClaimedAddress(mode, b, regs, operand) ==
  CASE mode = "ZeroPageX" -> (operand + regs.x) % 256
    [] mode = "ZeroPageY" -> (operand + regs.y) % 256
    [] mode = "IndexedIndirect" -> ClaimedPointer(b, (operand + regs.x) % 256)
    [] mode = "IndirectIndexed" ->
         (ClaimedPointer(b, operand) + regs.y) % 65536

ResolveStep ==
  (last'.kind \in ZeroPageModes) =>
    /\ fault' = "none"
    /\ last.data = Peek(bus, ProgramBase + 1)
    /\ last'.address = ClaimedAddress(last'.kind, bus, registers, last.data)

\* C32: for ZeroPageX and ZeroPageY the effective address is (operand +
\* index) mod 256, and for IndexedIndirect and IndirectIndexed both pointer
\* bytes are read from page zero at ptr and (ptr + 1) mod 256 (so ptr = 0xFF
\* takes its high byte from 0x0000), for all operand and index values;
\* IndirectIndexed then adds Y with 16-bit wraparound.
C32_ZeroPageModes == [][ResolveStep]_vars

\* (0xFF),Y with Y = 0x10: the pointer is cell 0xFF and cell 0x00, 0x03FC,
\* and the address 0x040C
C32_Witness ==
  /\ last.kind = "IndirectIndexed" /\ last.data = \hFF
  /\ registers.y = \h10
  /\ Peek(bus, \hFF) = \hFC /\ Peek(bus, \h00) = \h03
  /\ Peek(bus, \h0100) = \h00
  /\ last.address = \h040C

-----------------------------------------------------------------------------
(* The 16-bit accesses of the bus on their own: one write_u16 by a caller   *)
(* and read_u16 calls before and after it.                                  *)

\* addresses whose two bytes are in one range of the decoder, in two ranges,
\* on both sides of the end of the 2 KB of RAM, and at the end of the
\* address space
WordAddresses ==
  {\h0000, \h0001, \h07FE, \h07FF, \h0800, \h0FFF, \h17FF, \h1FFE, \h1FFF,
   \h3FFF, \h4000, \h7FFF, \h8000, \hBFFF, \hFFFE, \hFFFF}

WordData == {\h0000, \h00FF, \h1234, \hABCD, \hFF00, \hFFFF}

InitWord ==
  /\ rom \in BusRoms
  /\ loaded = CartridgeNew(create_rom(rom))
  /\ loaded.kind = "Ok"
  /\ bus = BusNew(loaded.cartridge)
  /\ registers = NoRegisters
  /\ fault = "none"
  /\ run = "idle"
  /\ last = NoLast
  /\ overflow_checks \in BOOLEAN

\* a caller's bus.write_u16(address, data), once
BusWriteU16Op ==
  /\ fault = "none"
  /\ run = "idle"
  /\ \E address \in WordAddresses, data \in WordData :
       \E w \in {BusWriteU16(bus, address, data)} :
         /\ bus' = w.bus
         /\ fault' = w.fault
         /\ last' = BusCall("write_u16", address, data, FALSE)
  /\ run' = "written"
  /\ UNCHANGED <<rom, loaded, registers, overflow_checks>>

\* a caller's bus.read_u16(address)
BusReadU16Op ==
  /\ fault = "none"
  /\ last.kind # "read_u16"
  /\ \E address \in WordAddresses :
       \E r \in {BusReadU16(bus, address)} :
         /\ fault' = r.fault
         /\ last' = BusCall("read_u16", address, r.value, FALSE)
  /\ UNCHANGED <<rom, loaded, bus, registers, run, overflow_checks>>

NextWord == BusWriteU16Op \/ BusReadU16Op

SpecWord == InitWord /\ [][NextWord]_vars

\* write(a, v mod 256) and then, unless it panicked, write(a + 1, v div 256)
TwoWrites(b, a, v) ==
  IF BusWrite(b, a, v % 256).fault # "none" THEN BusWrite(b, a, v % 256)
  ELSE BusWrite(BusWrite(b, a, v % 256).bus, a + 1, v \div 256)

\* write_u16 below the last address is the two 8-bit writes
WriteU16Step ==
  (last'.kind = "write_u16" /\ last'.address < 65535) =>
    /\ bus' = TwoWrites(bus, last'.address, last'.data).bus
    /\ fault' = TwoWrites(bus, last'.address, last'.data).fault

\* read_u16 below the last address is the two 8-bit reads, and panics when
\* one of them does
ReadU16Step ==
  (last'.kind = "read_u16" /\ last'.address < 65535) =>
    /\ fault' =
         IF BusRead(bus, last'.address).fault # "none"
           THEN BusRead(bus, last'.address).fault
           ELSE BusRead(bus, last'.address + 1).fault
    /\ (fault' = "none") =>
         last'.data = BusRead(bus, last'.address).value
                        + 256 * BusRead(bus, last'.address + 1).value

\* read_u16(a) after write_u16(a, v) with a and a + 1 in RAM returns v
ReadsBack ==
  (/\ last.kind = "write_u16" /\ last'.kind = "read_u16"
   /\ last'.address = last.address /\ last.address + 1 <= \h1FFF) =>
    /\ fault' = "none"
    /\ last'.data = last.data

\* C33: read16(a) = read(a) + 256 * read(a + 1) and write16(a, v) performs
\* write(a, v mod 256) then write(a + 1, v div 256), each byte going through
\* the normal 8-bit address decode independently; whenever a and a + 1 are
\* both in 0x0000-0x1FFF, read16(a) after write16(a, v) returns v, including
\* a = 0x07FF where the high byte lands in physical cell 0.
C33_Word == [][WriteU16Step /\ ReadU16Step /\ ReadsBack]_vars

\* 0xABCD written at 0x07FF was read back there: 0xCD is in physical cell
\* 0x07FF and 0xAB in physical cell 0
C33_Witness ==
  /\ last.kind = "read_u16" /\ last.address = \h07FF /\ last.data = \hABCD
  /\ run = "written" /\ fault = "none"
  /\ VecAt(bus.cpu_vram, \h07FF) = \hCD
  /\ VecAt(bus.cpu_vram, 0) = \hAB

-----------------------------------------------------------------------------
(* The combined undocumented opcodes on their own: DCP, ISC, SLO, RLA, SRE, *)
(* RRA, LAX and SAX in every addressing mode they have, applied once to     *)
(* operands in RAM, outside RAM, and on the instruction's own operand and   *)
(* pointer bytes.                                                           *)

\* the read-modify-write ones
RmwCodes ==
  DcpCodes \cup IscCodes \cup SloCodes \cup RlaCodes \cup SreCodes
    \cup RraCodes

UndocCodes == RmwCodes \cup LaxCodes \cup SaxCodes

\* operand bytes: zero-page cells that hold pointers (0x10, 0x40, 0xFF), the
\* operand byte itself (0x65 at ProgramBase + 1); words in RAM, on the operand
\* bytes and on their mirror, in the ignored range and in the PRG ROM
UndocOperands(code) ==
  IF OPCODES_MAP[code].length = 2
    THEN { <<o>> : o \in {\h10, \h40, ProgramBase + 1, \hFF} }
    ELSE { <<Lo(w), Hi(w)>> :
             w \in {\h0010, ProgramBase + 1, ProgramBase + 2, \h0300, \h07FF,
                    \h0800 + ProgramBase + 1, \h4000, \h8000} }

\* the memory of a combined opcode: pointers in the zero page (0x10 -> 0x0010,
\* 0x11 -> 0x0300, 0x40 -> 0x0300, 0x41 -> 0x0303, 0xFF -> 0x0200), the byte v
\* where they point, and the instruction at ProgramBase
UndocBus(code, operand, v) ==
  WriteProgram(
    WriteProgram(
      WriteProgram(
        WriteProgram(
          WriteProgram(
            WriteProgram(BusNew(CartridgeNew(create_rom(CpuRom)).cartridge),
                         \h0000, <<\h02>>),
            \h0010, <<\h10, \h00, \h03>>),
          \h0040, <<\h00, \h03, \h03>>),
        \h0200, <<v, v>>),
      \h0300, <<v, v, v, v, v>>),
    ProgramBase, <<code>> \o operand)

UndocData == {\h00, \h01, \h7F, \h80, \hFF}
UndocAccumulators == {\h00, \h3C, \h7F, \h80, \hFF}
UndocStatuses == {\h24, \h25, \hE7}

InitUndoc ==
  /\ rom = CpuRom
  /\ loaded = CartridgeNew(create_rom(rom))
  /\ \E code \in UndocCodes :
       \E operand \in UndocOperands(code), v \in UndocData :
         bus = UndocBus(code, operand, v)
  /\ \E a \in UndocAccumulators, index \in {0, 1}, status \in UndocStatuses :
       registers = [RegistersReset(ProgramBase + 1) EXCEPT
                      !.a = a, !.x = index, !.y = index, !.status = status]
  /\ fault = "none"
  /\ run = "undoc"
  /\ last = NoLast
  /\ overflow_checks = TRUE

\* the opcode at ProgramBase
InstalledCode == BusRead(bus, ProgramBase).value

\* the body of the opcode at ProgramBase as the dispatch calls it, the
\* program counter at its operand
ExecuteInstalled ==
  /\ run = "undoc"
  /\ last.kind = "none"
  /\ \E m \in {Execute(Cpu, InstalledCode, ModeOf(InstalledCode))} :
       /\ bus' = m.bus
       /\ registers' = m.registers
       /\ fault' = m.fault
  /\ last' = Instr(ProgramBase, InstalledCode,
                   GetOperandAddress(Cpu, ModeOf(InstalledCode)))
  /\ UNCHANGED <<rom, loaded, run, overflow_checks>>

NextUndoc == ExecuteInstalled

SpecUndoc == InitUndoc /\ [][NextUndoc]_vars

\* a primitive applied after another unless that one panicked
Then(m1, m2) == IF m1.fault # "none" THEN m1 ELSE m2

\* the documented primitives at the effective address: the memory ones
DecAt(m, address) == Stepped(m, address, ReadAt(m.bus, address), 255)
IncAt(m, address) == Stepped(m, address, ReadAt(m.bus, address), 1)
ShiftAt(m, address, op) == ShiftMemory(m, address, ReadAt(m.bus, address), op)

\* and the ones that read the address into the registers
CmpAt(m, address) ==
  Then(m, Compared(m, ReadAt(m.bus, address), m.registers.a))
SbcAt(m, address) == Then(m, SubtractData(m, ReadAt(m.bus, address)))
AdcAt(m, address) == Then(m, AddData(m, ReadAt(m.bus, address)))
LogicAt(m, address, op) ==
  Then(m, CombineData(m, op, ReadAt(m.bus, address)))
LdaAt(m, address) == LoadRegister(m, "a", ReadAt(m.bus, address))
TaxAfter(m) == Then(m, transfer_accumulator_to_index_x(m))

\* the sequence of two documented primitives the claim gives for the opcode,
\* both at the address resolved at the start
PrimitiveSequence(code, m, address) ==
  CASE code \in DcpCodes -> CmpAt(DecAt(m, address), address)
    [] code \in IscCodes -> SbcAt(IncAt(m, address), address)
    [] code \in SloCodes -> LogicAt(ShiftAt(m, address, "asl"), address, "ora")
    [] code \in RlaCodes -> LogicAt(ShiftAt(m, address, "rol"), address, "and")
    [] code \in SreCodes -> LogicAt(ShiftAt(m, address, "lsr"), address, "eor")
    [] code \in RraCodes -> AdcAt(ShiftAt(m, address, "ror"), address)
    [] code \in LaxCodes -> TaxAfter(LdaAt(m, address))
    [] code \in SaxCodes ->
         StoreAt(m, address, BitAnd(m.registers.a, m.registers.x))

\* the step left the panic, and without one the registers and the memory,
\* as m has them
LeftAs(m) ==
  /\ fault' = m.fault
  /\ (m.fault = "none") => (bus' = m.bus /\ registers' = m.registers)

\* the effective address of the opcode at ProgramBase, resolved before it
\* runs
EffectiveAddress == GetOperandAddress(Cpu, ModeOf(InstalledCode))

CombinedStep ==
  (last'.kind = "instr") =>
    LeftAs(PrimitiveSequence(last'.code, Cpu, EffectiveAddress))

\* C34: for every register state and operand address, each combined
\* undocumented opcode leaves registers, flags and memory exactly as the
\* sequence of its two documented primitives applied to the same effective
\* address: DCP = DEC then CMP, ISC = INC then SBC, SLO = ASL then ORA,
\* RLA = ROL then AND, SRE = LSR then EOR, RRA = ROR then ADC, LAX = LDA then
\* TAX; SAX stores A AND X and changes no flag.
C34_Composition == [][CombinedStep]_vars

\* the effective address is a cell of RAM
InRam == EffectiveAddress.fault = "none" /\ EffectiveAddress.value <= \h1FFF

\* the opcodes whose body resolves the operand a second time
ResolvedTwice == RlaCodes \cup RraCodes \cup SreCodes

\* the operand address as it resolves once the memory form of the opcode at
\* ProgramBase has written its result
ResolvedAgain ==
  GetOperandAddress(
    StoreAt(Cpu, EffectiveAddress,
            ShiftedData(Cpu, ModeOf(InstalledCode),
                        IF InstalledCode \in RlaCodes THEN "rol"
                        ELSE IF InstalledCode \in RraCodes THEN "ror"
                        ELSE "lsr")),
    ModeOf(InstalledCode))

\* the composition holds for LAX and SAX everywhere, and for the others
\* where the effective address is in RAM and, for the opcodes that resolve
\* the operand twice, the write has not moved the operand
CombinedInRam ==
  [][(/\ last'.kind = "instr"
      /\ \/ last'.code \in LaxCodes \cup SaxCodes
         \/ /\ InRam
            /\ last'.code \in ResolvedTwice => ResolvedAgain = EffectiveAddress)
       => LeftAs(PrimitiveSequence(last'.code, Cpu, EffectiveAddress))]_vars

\* the cells of RAM that hold a nonzero byte before or after the step
TouchedCells == (DOMAIN bus.cpu_vram.nz) \cup (DOMAIN bus'.cpu_vram.nz)

\* a read-modify-write opcode that did not panic changed no cell but the one
\* at the effective address
SingleWrite ==
  (last'.kind = "instr" /\ last'.code \in RmwCodes /\ fault' = "none") =>
    /\ bus'.cartridge = bus.cartridge
    /\ \A i \in TouchedCells :
         (i # BitAnd(EffectiveAddress.value, 2047)) =>
           (VecAt(bus'.cpu_vram, i) = VecAt(bus.cpu_vram, i))

\* C35: each undocumented read-modify-write opcode (SLO, RLA, SRE, RRA, DCP,
\* ISC) writes memory only at the single effective address resolved from its
\* operand at the start of the instruction, even when that address is one of
\* the instruction's own operand bytes or one of its zero-page pointer bytes;
\* no second memory cell is modified.
C35_SingleWrite == [][SingleWrite]_vars

\* the single write holds for DCP, ISC and SLO, which resolve the operand
\* once
SingleWriteResolvedOnce ==
  [][(last'.code \in DcpCodes \cup IscCodes \cup SloCodes) => SingleWrite]_vars

-----------------------------------------------------------------------------
(* The status register over instruction sequences.  The CPU has been reset; *)
(* the flags C, Z, I, D, V and N are as any earlier instructions left them  *)
(* (PLP can leave any combination), and the cells the first pull reads hold *)
(* a byte with or without B and U.  The callback of run_with_callback       *)
(* writes an instruction at the program counter and leaves the registers    *)
(* alone; the loop then fetches and executes it.  Every opcode of the table *)
(* is executed in this way, and a pull after each push.                     *)

\* the six flags an instruction may change, in any combination, over the
\* status reset leaves: U set and B clear
StatusesAfterReset ==
  { FlagU + c + z + i + d + v + n :
      c \in {0, FlagC}, z \in {0, FlagZ}, i \in {0, FlagI}, d \in {0, FlagD},
      v \in {0, FlagV}, n \in {0, FlagN} }

\* bytes found on the stack: without B and U, with B, with both, all bits
StackBytes == {\h00, \h10, \h30, \hCB, \hFF}

\* the operand bytes the callback writes after the opcode byte
CallbackOperand(code) ==
  IF OPCODES_MAP[code].length = 1 THEN << >>
  ELSE IF OPCODES_MAP[code].length = 2 THEN <<\h10>>
  ELSE <<\h10, \h03>>

InitStatus ==
  /\ rom = CpuRom
  /\ loaded = CartridgeNew(create_rom(rom))
  /\ \E b \in StackBytes :
       bus = WriteProgram(
               WriteProgram(BusNew(loaded.cartridge), \h0100, <<\h00>>),
               \h01FE, <<b, ProgramBase + 16>>)
  /\ \E status \in StatusesAfterReset :
       registers = [RegistersReset(ProgramBase) EXCEPT !.status = status]
  /\ fault = "none"
  /\ run = "loop"
  /\ last = NoLast
  /\ overflow_checks = TRUE

\* the CPU once the callback has written the instruction at the program
\* counter
Called(code) ==
  [Cpu EXCEPT !.bus = WriteProgram(bus, registers.program_counter,
                                   <<code>> \o CallbackOperand(code))]

\* callback(self), then one iteration of the loop on what it wrote
IterationAfterCallback(code) ==
  /\ \E r \in {RunIteration(Called(code))} :
       /\ bus' = r.cpu.bus
       /\ registers' = r.cpu.registers
       /\ fault' = r.cpu.fault
       /\ run' = IF r.returned THEN "returned" ELSE "loop"
  /\ last' = Fetched(Called(code), Value(code))
  /\ UNCHANGED <<rom, loaded, overflow_checks>>

\* the first iteration: any opcode of the table
CallbackThenStep ==
  /\ run = "loop"
  /\ fault = "none"
  /\ last.kind = "none"
  /\ \E code \in DOMAIN OPCODES_MAP : IterationAfterCallback(code)

\* PHP, PHA
PushCodes == {\h08, \h48}

\* PLP, RTI
PullStatusCodes == {\h28, \h40}

\* the iteration after a push: the status is pulled from what was pushed
PullAfterPush ==
  /\ run = "loop"
  /\ fault = "none"
  /\ last.kind = "instr"
  /\ last.code \in PushCodes
  /\ \E code \in PullStatusCodes : IterationAfterCallback(code)

NextStatus == CallbackThenStep \/ PullAfterPush

SpecStatus == InitStatus /\ [][NextStatus]_vars

\* U set and B clear
LiveStatus(status) ==
  FlagContains(status, FlagU) /\ ~FlagContains(status, FlagB)

\* the live status after an iteration has U set and B clear; the byte PHP
\* wrote at 0x0100 + SP has both set
StatusStep ==
  /\ LiveStatus(registers'.status)
  /\ FetchedCode(\h08) =>
       /\ FlagContains(VecAt(bus'.cpu_vram, 256 + registers.stack_pointer),
                       FlagB + FlagU)
       /\ registers'.status = registers.status

\* C36: after reset, in every state reachable by executing any instruction
\* sequence (with a callback that does not touch registers), the live
\* status register has U (bit 5) set and B (bit 4) clear; B appears set only
\* in the byte that PHP writes to the stack.
C36_LiveStatus == [][StatusStep]_vars

\* PHP pushed the status with B set, and PLP pulled it: B is clear in the
\* live status while the cell still holds it
C36_Witness ==
  /\ last.kind = "instr" /\ last.code = \h28
  /\ fault = "none"
  /\ registers.stack_pointer = \hFD
  /\ FlagContains(VecAt(bus.cpu_vram, \h01FD), FlagB)
  /\ registers.status = \hE7

-----------------------------------------------------------------------------
(* The stack helpers on their own: stack_push, stack_pop, stack_push_u16   *)
(* and stack_pop_u16 called one after another, from every stack pointer    *)
(* and over a stack page whose cells all differ, so that the byte a pull   *)
(* returns tells the cell it was read from.  last is the call made last,   *)
(* its argument or result, and the number of calls so far.                 *)

\* calls in a row
MaxCalls == 2

\* the byte in cell 0x0100 + i before the first call
StackFill(i) == (7 * i + 3) % 256

PushedBytes == {\h00, \hA5}
PushedWords == {\h12CD, \hFF00}

StackCall(kind, data) ==
  [kind |-> kind, data |-> data, sp |-> registers.stack_pointer,
   calls |-> last.calls + 1]

InitPush ==
  /\ rom = CpuRom
  /\ loaded = CartridgeNew(create_rom(rom))
  /\ bus = [BusNew(loaded.cartridge) EXCEPT
              !.cpu_vram.nz = [c \in 256..511 |-> StackFill(c - 256)]]
  /\ \E sp \in 0..255 :
       registers = [RegistersReset(ProgramBase) EXCEPT !.stack_pointer = sp]
  /\ fault = "none"
  /\ run = "stack"
  /\ last = [kind |-> "none", data |-> 0, sp |-> 0, calls |-> 0]
  /\ overflow_checks = TRUE

\* what a helper that returns nothing leaves
PushReturned(m, kind, data) ==
  /\ bus' = m.bus
  /\ registers' = m.registers
  /\ fault' = m.fault
  /\ last' = StackCall(kind, data)
  /\ UNCHANGED <<rom, loaded, run, overflow_checks>>

\* what a helper that returns a value leaves
PopReturned(m, kind, data) ==
  /\ bus' = m.bus
  /\ registers' = m.registers
  /\ fault' = data.fault
  /\ last' = StackCall(kind, data.value)
  /\ UNCHANGED <<rom, loaded, run, overflow_checks>>

StackPushOp ==
  /\ run = "stack" /\ fault = "none" /\ last.calls < MaxCalls
  /\ \E data \in PushedBytes : PushReturned(StackPush(Cpu, data), "push", data)

StackPopOp ==
  /\ run = "stack" /\ fault = "none" /\ last.calls < MaxCalls
  /\ PopReturned(StackPopped(Cpu), "pop", StackTop(StackPopped(Cpu)))

StackPushU16Op ==
  /\ run = "stack" /\ fault = "none" /\ last.calls < MaxCalls
  /\ \E data \in PushedWords :
       PushReturned(stack_push_u16(Cpu, data), "push_u16", data)

StackPopU16Op ==
  /\ run = "stack" /\ fault = "none" /\ last.calls < MaxCalls
  /\ PopReturned(StackPopped(StackPopped(Cpu)), "pop_u16", PoppedWord(Cpu))

NextPush == StackPushOp \/ StackPopOp \/ StackPushU16Op \/ StackPopU16Op

SpecPush == InitPush /\ [][NextPush]_vars

\* the cell at 0x0100 + sp mod 256
PageCell(b, sp) == VecAt(b.cpu_vram, 256 + (sp % 256))

\* the step changed no cell of RAM but the stack cells in cells
OnlyStackCells(cells) ==
  \A i \in TouchedCells :
    (i \notin {256 + (c % 256) : c \in cells}) =>
      VecAt(bus'.cpu_vram, i) = VecAt(bus.cpu_vram, i)

\* a push writes at 0x0100 + SP, then SP is (SP - 1) mod 256
PushWrites ==
  (last'.kind = "push") =>
    /\ fault' = "none"
    /\ PageCell(bus', registers.stack_pointer) = last'.data
    /\ OnlyStackCells({registers.stack_pointer})
    /\ registers'.stack_pointer = (registers.stack_pointer + 255) % 256

\* a pull sets SP to (SP + 1) mod 256, then reads 0x0100 + SP
PopReads ==
  (last'.kind = "pop") =>
    /\ fault' = "none"
    /\ registers'.stack_pointer = (registers.stack_pointer + 1) % 256
    /\ last'.data = PageCell(bus, registers.stack_pointer + 1)
    /\ bus' = bus

\* the 16-bit forms: high byte at SP, low byte at SP - 1; low byte from
\* SP + 1, high byte from SP + 2, all in the page
WordsInPage ==
  /\ (last'.kind = "push_u16") =>
       /\ fault' = "none"
       /\ PageCell(bus', registers.stack_pointer) = last'.data \div 256
       /\ PageCell(bus', registers.stack_pointer + 255) = last'.data % 256
       /\ OnlyStackCells({registers.stack_pointer,
                          registers.stack_pointer + 255})
       /\ registers'.stack_pointer = (registers.stack_pointer + 254) % 256
  /\ (last'.kind = "pop_u16") =>
       /\ fault' = "none"
       /\ last'.data = PageCell(bus, registers.stack_pointer + 1)
                         + 256 * PageCell(bus, registers.stack_pointer + 2)
       /\ registers'.stack_pointer = (registers.stack_pointer + 2) % 256
       /\ bus' = bus

\* a pull after a push returns the pushed byte, a 16-bit pull after a
\* 16-bit push the pushed word, and SP is as before the push
PullsBack ==
  /\ (last.kind = "push" /\ last'.kind = "pop") =>
       (last'.data = last.data /\ registers'.stack_pointer = last.sp)
  /\ (last.kind = "push_u16" /\ last'.kind = "pop_u16") =>
       (last'.data = last.data /\ registers'.stack_pointer = last.sp)

\* the registers but SP are left alone
OnlyStackPointer ==
  [registers' EXCEPT !.stack_pointer = 0] =
    [registers EXCEPT !.stack_pointer = 0]

\* C37: every stack push and pull, in any sequence and for every SP value,
\* accesses an address in 0x0100-0x01FF: push writes at 0x0100 + SP then SP
\* becomes (SP - 1) mod 256, pull sets SP to (SP + 1) mod 256 then reads
\* 0x0100 + SP; a push followed by a pull returns the pushed byte and
\* restores SP, and a 16-bit push followed by a 16-bit pull returns the same
\* 16-bit value.
C37_StackPage ==
  [][PushWrites /\ PopReads /\ WordsInPage /\ PullsBack /\ OnlyStackPointer]_vars

\* a 16-bit push at SP = 0x00 wrapped to 0x01FF for its low byte, and the
\* 16-bit pull returned the word and SP
C37_Witness ==
  /\ last.kind = "pop_u16" /\ last.data = \h12CD /\ last.calls = 2
  /\ registers.stack_pointer = 0
  /\ VecAt(bus.cpu_vram, \h0100) = \h12
  /\ VecAt(bus.cpu_vram, \h01FF) = \hCD

-----------------------------------------------------------------------------
(* The Decimal flag.  The CPU is run for one instruction from states that  *)
(* come in pairs equal but for D: every accumulator and memory byte below  *)
(* with D set and with D clear, the callback writing any opcode of the     *)
(* table at the program counter.  Each step is compared with the iteration *)
(* of the same instruction on the state with D the other way.              *)

DecimalAccumulators == {\h00, \h09, \h7F, \hFF}
DecimalData == {\h00, \h01, \h80, \hFF}

\* with and without D and C, over three settings of the other flags
DecimalStatuses ==
  { FlagU + c + d + rest :
      c \in {0, FlagC}, d \in {0, FlagD},
      rest \in {0, FlagI, FlagZ + FlagV + FlagN} }

InitDecimal ==
  /\ rom = CpuRom
  /\ loaded = CartridgeNew(create_rom(rom))
  /\ \E v \in DecimalData :
       bus = WriteProgram(
               WriteProgram(
                 WriteProgram(BusNew(loaded.cartridge), \h0010, <<v>>),
                 \h01FE, <<v, ProgramBase + 16>>),
               \h0310, <<v>>)
  /\ \E a \in DecimalAccumulators, status \in DecimalStatuses :
       registers = [RegistersReset(ProgramBase) EXCEPT
                      !.a = a, !.status = status]
  /\ fault = "none"
  /\ run = "loop"
  /\ last = NoLast
  /\ overflow_checks = TRUE

SpecDecimal == InitDecimal /\ [][NextStatus]_vars

\* a status with D cleared
WithoutD(status) == FlagSet(status, FlagD, FALSE)

\* m with the Decimal flag the other way
OtherD(m) ==
  [m EXCEPT !.registers.status =
     FlagSet(@, FlagD, ~FlagContains(@, FlagD))]

\* the iteration of the instruction just executed on the state with D the
\* other way
OtherIteration == RunIteration(OtherD(Called(last'.code)))

\* registers equal except for D
EqualExceptD(r1, r2) ==
  [r1 EXCEPT !.status = WithoutD(@)] = [r2 EXCEPT !.status = WithoutD(@)]

\* memories equal, except for D in the status byte PHP pushed at cell
SameMemoryExceptD(b1, b2, cell) ==
  /\ b1.cartridge = b2.cartridge
  /\ \A i \in (DOMAIN b1.cpu_vram.nz) \cup (DOMAIN b2.cpu_vram.nz) :
       IF i = cell
         THEN WithoutD(VecAt(b1.cpu_vram, i)) = WithoutD(VecAt(b2.cpu_vram, i))
         ELSE VecAt(b1.cpu_vram, i) = VecAt(b2.cpu_vram, i)

\* the two iterations end equal except for D
DecimalStep ==
  (last'.kind = "instr") =>
    \A other \in {OtherIteration} :
      /\ other.cpu.fault = fault'
      /\ other.returned = (run' = "returned")
      /\ EqualExceptD(other.cpu.registers, registers')
      /\ SameMemoryExceptD(other.cpu.bus, bus',
                           IF last'.code = \h08
                             THEN 256 + registers.stack_pointer ELSE -1)

\* CLD, SED change bit 3 of the status and nothing else but the program
\* counter
DecimalSet ==
  (last'.kind = "instr" /\ last'.code \in {\hD8, \hF8}) =>
    /\ registers' =
         [registers EXCEPT
            !.status = FlagSet(@, FlagD, last'.code = \hF8),
            !.program_counter = @ + 1]
    /\ bus' = Called(last'.code).bus
    /\ fault' = "none"

-----------------------------------------------------------------------------
(* Reads of the ROM window over every cartridge the loader accepts, the    *)
(* one without PRG bank included.                                          *)

\* the index the claim gives a read of the ROM window: address AND 0x7FFF,
\* mirrored into the first 16 KB when there is a single bank
ClaimedRomIndex(b, address) ==
  IF b.cartridge.prg_rom.len = 16384
    THEN BitAnd(address, \h3FFF)
    ELSE BitAnd(address, \h7FFF)

\* the read of the ROM window returned the byte at an index inside PRG ROM
RomReadInside ==
  (last.kind = "read" /\ last.address >= \h8000) =>
    /\ fault = "none"
    /\ ClaimedRomIndex(bus, last.address) < bus.cartridge.prg_rom.len
    /\ last.data = VecAt(bus.cartridge.prg_rom,
                         ClaimedRomIndex(bus, last.address))

\* C39: for every cartridge the loader accepts, whatever its PRG bank count
\* (0, 1, 2 or more 16KB banks), every bus read at an address in
\* 0x8000-0xFFFF indexes inside the PRG ROM byte array and returns a ROM
\* byte; no such read indexes past the end of the array.
C39_RomReadInside == RomReadInside

\* the reads stay inside the array for every cartridge with a PRG bank
RomReadInsideWithBank ==
  (bus.cartridge.prg_rom.len > 0) => RomReadInside

-----------------------------------------------------------------------------
(* The 16-bit accesses at the last address, 0xFFFF, where address + 1 does *)
(* not fit in a u16.                                                       *)

\* read_u16(0xFFFF) over a cartridge with a PRG bank returns the byte at
\* 0xFFFF and, as high byte, the byte at 0x0000
ReadWrapsAround ==
  (/\ last'.kind = "read_u16" /\ last'.address = \hFFFF
   /\ BusRead(bus, \hFFFF).fault = "none") =>
    /\ fault' = "none"
    /\ last'.data = BusRead(bus, \hFFFF).value
                      + 256 * BusRead(bus, \h0000).value

\* write_u16(0xFFFF, v) does not panic and stores the high byte of v at
\* 0x0000
WriteWrapsAround ==
  (last'.kind = "write_u16" /\ last'.address = \hFFFF) =>
    /\ fault' = "none"
    /\ BusRead(bus', \h0000).value = last'.data \div 256

\* C40: every 16-bit address increment in the core wraps modulo 65536 and
\* never faults: read16 and write16 at address 0xFFFF take their high byte
\* at 0x0000, the fetch increment of PC at 0xFFFF yields 0x0000, the advance
\* step wraps, and RTS on a pulled value 0xFFFF yields PC = 0x0000.
C40_Wraps == [][ReadWrapsAround /\ WriteWrapsAround]_vars

\* read_u16 wraps in a build without overflow checks
ReadWrapsUnchecked == [][~overflow_checks => ReadWrapsAround]_vars

\* write_u16(0xFFFF, v) panics in every build: on the increment, or on the
\* write of the low byte into the ROM window
WriteAtTopPanics ==
  [][(last'.kind = "write_u16" /\ last'.address = \hFFFF)
       => fault' # "none"]_vars

\* read_u16(0xFFFF) panics in a build with overflow checks
ReadAtTopPanicsChecked ==
  [][(last'.kind = "read_u16" /\ last'.address = \hFFFF /\ overflow_checks)
       => fault' # "none"]_vars

====
